---- MODULE Spec2Model ----
(***************************************************************************)
(* Model of the club and feed providers of xbox-webapi-python              *)
(* (xbox/webapi/api/provider/clubs, xbox/webapi/api/provider/feed).        *)
(*                                                                         *)
(* The providers are stateless: every operation builds one request, hands  *)
(* it to the HTTP session and turns the response into a value or an error. *)
(* The state of the model is the latest invocation: the operation, its     *)
(* arguments, the requests it handed to the session, the response the      *)
(* session gave and the outcome of the operation.                          *)
(*                                                                         *)
(* Conventions                                                             *)
(*   - a Python str is a sequence of tokens (TLA+ strings); concatenation  *)
(*     and f-strings are \o, str.join is Join;                             *)
(*   - a Python value of varying type is a tagged record (None_, PStr,     *)
(*     PInt, PBool, PList);                                                *)
(*   - a dict is a function from keys to values.                           *)
(***************************************************************************)
EXTENDS Integers, Sequences, FiniteSets, TLC

VARIABLES op, args, sent, resp, result, tables, inflight

vars == <<op, args, sent, resp, result, tables, inflight>>

(***************************************************************************)
(* Bounds of the model.                                                    *)
(***************************************************************************)
MaxMonthsAgo == 26
FirstRefYear == 2023
NumRefYears == 2
MaxIdListLen == 12
ShortIdListLen == 2

(***************************************************************************)
(* Python values.                                                          *)
(***************************************************************************)
None_ == [t |-> "none"]
PStr(s) == [t |-> "str", s |-> s]
PInt(i) == [t |-> "int", i |-> i]
PBool(b) == [t |-> "bool", b |-> b]
PList(l) == [t |-> "list", l |-> l]

IsNone(v) == v.t = "none"

\* Python truthiness of a value: None, "", 0, False and [] are falsy.
Truthy(v) ==
    CASE v.t = "none" -> FALSE
      [] v.t = "str" -> v.s # <<>>
      [] v.t = "int" -> v.i # 0
      [] v.t = "bool" -> v.b
      [] v.t = "list" -> v.l # <<>>
      [] OTHER -> TRUE

DigitChar(d) ==
    CASE d = 0 -> "0" [] d = 1 -> "1" [] d = 2 -> "2" [] d = 3 -> "3"
      [] d = 4 -> "4" [] d = 5 -> "5" [] d = 6 -> "6" [] d = 7 -> "7"
      [] d = 8 -> "8" [] d = 9 -> "9"

RECURSIVE Digits(_)
Digits(n) == IF n < 10 THEN <<DigitChar(n)>>
             ELSE Digits(n \div 10) \o <<DigitChar(n % 10)>>

\* str(v) for the values the providers stringify.
PyStr(v) ==
    CASE v.t = "none" -> <<"None">>
      [] v.t = "str" -> v.s
      [] v.t = "int" -> Digits(v.i)
      [] v.t = "bool" -> IF v.b THEN <<"True">> ELSE <<"False">>

\* str.lower(), token by token; the tokens without upper-case letters
\* (digits, lower-case words) are their own lower-case form.
LowerToken(c) ==
    CASE c = "True" -> "true"
      [] c = "False" -> "false"
      [] c = "None" -> "none"
      [] OTHER -> c

Lower(s) == [i \in 1..Len(s) |-> LowerToken(s[i])]

\* sep.join(list) for a list of strings.
RECURSIVE Join(_, _)
Join(sep, l) ==
    IF l = <<>> THEN <<>>
    ELSE IF Len(l) = 1 THEN l[1]
    ELSE l[1] \o sep \o Join(sep, Tail(l))

\* d | {key: val} and d[key] = val on dicts.
DictSet(d, key, val) ==
    [k \in DOMAIN d \cup {key} |-> IF k = key THEN val ELSE d[k]]

EmptyDict == [k \in {} |-> <<>>]

(***************************************************************************)
(* Outcomes of an operation.                                               *)
(***************************************************************************)
Return(v) == [kind |-> "return", val |-> v]
Raise(e) == [kind |-> "raise", exc |-> e]
RaiseHTTP(r) == [kind |-> "raise", exc |-> "HTTPStatusError",
                 status |-> r.status, text |-> r.text]

NoResp == [t |-> "none", status |-> 0]
NoResult == [kind |-> "none"]

(***************************************************************************)
(* The HTTP session (the collaborator behind self.client.session).  A call *)
(* either fails in transport or yields a response with a status code and a *)
(* text body.  A body is described by the schema it satisfies.             *)
(***************************************************************************)
Statuses == {200, 201, 202, 204, 404, 500}

\* Attribute sets of the response object: every response has status_code and
\* text; whether it also has an attribute named status depends on the
\* session's HTTP library.
AttrSets == {{"status_code", "text"}, {"status_code", "text", "status"}}

Responses(bodies) ==
    [t : {"response"}, status : Statuses, text : bodies, attrs : AttrSets]

Failures == [t : {"failure"}, exc : {"ConnectError", "CancelledError"}]

Replies(bodies) == Responses(bodies) \cup Failures

Body(shape) == [shape |-> shape]

ClubsBody(clubs) == [shape |-> "SearchClubsResponse", clubs |-> clubs]

\* Keyword arguments the caller hands through (**kwargs), as key sets.
KwargKeys == {{}, {"timeout"}, {"params"}}

Kwargs == {[k \in keys |-> "caller"] : keys \in KwargKeys}

\* session.<verb>(url, headers=..., **kwargs): Python rejects the call with a
\* TypeError when kwargs repeats a keyword the operation passes itself.
Collides(kw, kwargs) == DOMAIN kw \cap DOMAIN kwargs # {}

Request(verb, kw, kwargs) == [verb |-> verb, kw |-> kw @@ kwargs]

\* resp.raise_for_status()
RaisesForStatus(r) == r.status \notin 200..299

\* Model.parse_raw(resp.text): the model when the body satisfies its schema,
\* a validation error otherwise.
parse_raw(model, text) ==
    IF text.shape = model THEN Return([model |-> model, body |-> text])
    ELSE Raise("ValidationError")

\* resp.raise_for_status() followed by the rest of the operation.
Checked(r, rest) == IF RaisesForStatus(r) THEN RaiseHTTP(r) ELSE rest

\* One invocation: the operation `name` with arguments `a` makes the session
\* call (verb, kw, kwargs), the session replies `r`, and `rest` is what the
\* operation does with a response.
InvokeWith(name, a, verb, kw, kwargs, r, rest, tables_after) ==
    /\ op = "idle"
    /\ tables' = tables_after
    /\ inflight' = inflight
    /\ op' = name
    /\ args' = a
    /\ IF Collides(kw, kwargs)
       THEN /\ sent' = <<>>
            /\ resp' = NoResp
            /\ result' = Raise("TypeError")
       ELSE /\ sent' = <<Request(verb, kw, kwargs)>>
            /\ resp' = r
            /\ result' = IF r.t = "failure" THEN Raise(r.exc) ELSE rest

\* An invocation that leaves the class attributes as they are.
Invoke(name, a, verb, kw, kwargs, r, rest) ==
    InvokeWith(name, a, verb, kw, kwargs, r, rest, tables)

\* An invocation that fails before any session call.
Fail(name, a, e) ==
    /\ op = "idle"
    /\ op' = name
    /\ args' = a
    /\ sent' = <<>>
    /\ resp' = NoResp
    /\ result' = Raise(e)
    /\ UNCHANGED <<tables, inflight>>

(***************************************************************************)
(* ClubProvider: URLs, headers and inputs.                                 *)
(***************************************************************************)
CLUBACCOUNTS_URL == <<"https://clubaccounts.xboxlive.com">>
CLUBHUB_URL == <<"https://clubhub.xboxlive.com">>
CLUBPRESENCE_URL == <<"https://clubpresence.xboxlive.com">>

\* The class attributes holding header tables, as the class bodies of
\* ClubProvider and FeedProvider make them: _HEADERS_COMMON | {...} is a new
\* dict for each table.
ContractVersion(h, v) == DictSet(h, "x-xbl-contract-version", v)

ClassTables ==
    LET common == [Accept |-> "application/json",
                   AcceptLanguage |-> "en-US, en, ..."]
    IN [_HEADERS_COMMON |-> common,
        HEADERS_CLUBACCOUNTS |-> ContractVersion(common, "1"),
        HEADERS_CLUBHUB |-> ContractVersion(common, "5"),
        HEADERS_CLUBPRESENCE |-> ContractVersion(common, "1"),
        HEADERS_CLUBPROFILE |-> ContractVersion(common, "2"),
        HEADERS_CLUBROSTER |-> ContractVersion(common, "4"),
        HEADERS_ACTIVITY |-> ContractVersion(EmptyDict, "12"),
        HEADERS_USERPOSTS |-> ContractVersion(EmptyDict, "2"),
        HEADERS_COMMENTS |-> ContractVersion(EmptyDict, "3"),
        HEADERS_CHATFEED |-> ContractVersion(EmptyDict, "1"),
        HEADERS_CLUBMODERATION |-> ContractVersion(EmptyDict, "1")]

\* self.<table>: the table as it is when an operation reads it.
_HEADERS_COMMON == tables._HEADERS_COMMON
HEADERS_CLUBACCOUNTS == tables.HEADERS_CLUBACCOUNTS
HEADERS_CLUBHUB == tables.HEADERS_CLUBHUB
HEADERS_CLUBPRESENCE == tables.HEADERS_CLUBPRESENCE

SEPARATOR == <<",">>

\* self.client.xuid
ClientXuid == <<"xuid0">>

ClubIds == {<<"club1">>, <<"club2">>}
Xuids == {<<"xuid1">>}
Names == {<<"name1">>}

ClubIdUrl(club_id) == CLUBACCOUNTS_URL \o <<"/clubs/clubid(">> \o club_id \o <<")">>

(***************************************************************************)
(* ClubProvider: club accounts.                                            *)
(***************************************************************************)
\* What an operation hands to the session, built from the class attributes
\* `t` it reads, and the class attributes it leaves behind.
Call(verb, kw, kwargs, t) ==
    [kind |-> "call", verb |-> verb, kw |-> kw, kwargs |-> kwargs,
     tables |-> t]

get_club_summary_call(t, club_id, kwargs) ==
    Call("GET",
         [url |-> ClubIdUrl(club_id), headers |-> t.HEADERS_CLUBACCOUNTS],
         kwargs, t)

get_club_summary_rest(r) == Checked(r, parse_raw("ClubSummary", r.text))

get_club_summary ==
    /\ op = "idle"
    /\ \E club_id \in ClubIds, kwargs \in Kwargs,
       r \in Replies({Body("ClubSummary"), Body("other")}) :
        LET call == get_club_summary_call(tables, club_id, kwargs)
        IN InvokeWith("get_club_summary",
                      [club_id |-> club_id, kwargs |-> kwargs],
                      call.verb, call.kw, call.kwargs, r,
                      get_club_summary_rest(r), call.tables)

\* headers = self.HEADERS_CLUBACCOUNTS | {"x-xbl-contract-version": "2"}:
\* the headers of the request, and the class attributes afterwards.
owned_clubs_headers_in_place(t) ==
    LET headers == ContractVersion(t.HEADERS_CLUBACCOUNTS, "2")
    IN [headers |-> headers,
        tables |-> [t EXCEPT !.HEADERS_CLUBACCOUNTS = headers]]

owned_clubs_headers(t) ==
    [headers |-> ContractVersion(t.HEADERS_CLUBACCOUNTS, "2"), tables |-> t]

get_clubs_owned_call(t, kwargs) ==
    LET made == owned_clubs_headers(t)
    IN Call("GET",
            [url |-> CLUBACCOUNTS_URL \o <<"/users/xuid(">> \o ClientXuid
                         \o <<")/clubsowned">>,
             headers |-> made.headers],
            kwargs, made.tables)

get_clubs_owned_rest(r) ==
    Checked(r, parse_raw("OwnedClubsResponse", r.text))

get_clubs_owned ==
    /\ op = "idle"
    /\ \E kwargs \in Kwargs,
       r \in Replies({Body("OwnedClubsResponse"), Body("other")}) :
        LET call == get_clubs_owned_call(tables, kwargs)
        IN InvokeWith("get_clubs_owned", [kwargs |-> kwargs],
                      call.verb, call.kw, call.kwargs, r,
                      get_clubs_owned_rest(r), call.tables)

claim_club_name ==
    /\ op = "idle"
    /\ \E name \in Names, kwargs \in Kwargs,
       r \in Replies({Body("ClubReservation"), Body("other")}) :
        Invoke("claim_club_name", [name |-> name, kwargs |-> kwargs],
               "POST",
               [url |-> CLUBACCOUNTS_URL \o <<"/clubs/reserve">>,
                headers |-> HEADERS_CLUBACCOUNTS,
                json |-> [name |-> name]],
               kwargs, r,
               Checked(r, parse_raw("ClubReservation", r.text)))

transfer_club_ownership ==
    /\ op = "idle"
    /\ \E club_id \in ClubIds, xuid \in Xuids, kwargs \in Kwargs,
       r \in Replies({Body("ClubSummary"), Body("other")}) :
        Invoke("transfer_club_ownership",
               [club_id |-> club_id, xuid |-> xuid, kwargs |-> kwargs],
               "POST",
               [url |-> ClubIdUrl(club_id), headers |-> HEADERS_CLUBACCOUNTS,
                json |-> [method |-> <<"TransferOwnership">>, user |-> xuid]],
               kwargs, r,
               Checked(r, parse_raw("ClubSummary", r.text)))

rename_club ==
    /\ op = "idle"
    /\ \E club_id \in ClubIds, name \in Names, kwargs \in Kwargs,
       r \in Replies({Body("ClubSummary"), Body("other")}) :
        Invoke("rename_club",
               [club_id |-> club_id, name |-> name, kwargs |-> kwargs],
               "POST",
               [url |-> ClubIdUrl(club_id), headers |-> HEADERS_CLUBACCOUNTS,
                json |-> [method |-> <<"ChangeName">>, name |-> name]],
               kwargs, r,
               Checked(r, parse_raw("ClubSummary", r.text)))

\* delete_club with the branches for 200 and 202 exchanged.
delete_club_result_swapped(r) ==
    IF r.status = 200 THEN parse_raw("ClubSummary", r.text)
    ELSE IF r.status = 202 THEN parse_raw("ClubReservation", r.text)
    ELSE Return(None_)

\* The status-code branches of delete_club, after raise_for_status().
delete_club_result(r) ==
    IF r.status = 200 THEN parse_raw("ClubReservation", r.text)
    ELSE IF r.status = 202 THEN parse_raw("ClubSummary", r.text)
    ELSE Return(None_)

delete_club ==
    /\ op = "idle"
    /\ \E club_id \in ClubIds, kwargs \in Kwargs,
       r \in Replies({Body("ClubReservation"), Body("ClubSummary"),
                      Body("empty")}) :
        Invoke("delete_club", [club_id |-> club_id, kwargs |-> kwargs],
               "DELETE",
               [url |-> ClubIdUrl(club_id), headers |-> HEADERS_CLUBACCOUNTS],
               kwargs, r,
               Checked(r, delete_club_result(r)))

unsuspend_club ==
    /\ op = "idle"
    /\ \E club_id \in ClubIds, kwargs \in Kwargs,
       r \in Replies({Body("empty")}) :
        Invoke("unsuspend_club", [club_id |-> club_id, kwargs |-> kwargs],
               "DELETE",
               [url |-> ClubIdUrl(club_id) \o <<"/suspension/owner">>,
                headers |-> HEADERS_CLUBACCOUNTS],
               kwargs, r,
               Checked(r, Return(None_)))

(***************************************************************************)
(* ClubProvider: club hub.                                                 *)
(***************************************************************************)
\* The most ids one club hub endpoint takes.
MaxEndpointIds == 10

\* The for loop of _create_search_params over kwargs.items(), a sequence of
\* <<key, value>> pairs.
RECURSIVE search_params_loop(_, _)
search_params_loop(params, items) ==
    IF items = <<>> THEN params
    ELSE LET key == items[1][1]
             arg == items[1][2]
         IN search_params_loop(
                IF arg.t = "list" THEN DictSet(params, key, Join(<<",">>, arg.l))
                ELSE IF arg.t # "none" THEN DictSet(params, key, PyStr(arg))
                ELSE params,
                Tail(items))

\* _create_search_params without the check of the query.
_create_search_params_unchecked(query, items) ==
    Return(search_params_loop([q |-> query.s], items))

_create_search_params(query, items) ==
    IF ~Truthy(query) THEN Raise("ValueError")
    ELSE Return(search_params_loop([q |-> query.s], items))

\* _create_clubhub_id_endpoint appending the decoration suffix whether or
\* not there are decorations.
_create_clubhub_id_endpoint_always_decorated(ids_in, is_xuid, decorations_in) ==
    LET ids == IF ids_in.t = "str" THEN <<ids_in.s>> ELSE ids_in.l
        decorations == IF decorations_in.t = "none" THEN <<>>
                       ELSE decorations_in.l
        id_subpath == IF ~is_xuid THEN "Ids" ELSE "Xuid"
        endpoint == CLUBHUB_URL \o <<"/clubs/", id_subpath, "(">>
                        \o Join(SEPARATOR, ids) \o <<")">>
    IN IF Len(ids) > MaxEndpointIds THEN Raise("ValueError")
       ELSE Return(endpoint \o <<"/decoration/">> \o Join(<<",">>, decorations))

\* _create_clubhub_id_endpoint letting one id more than the maximum through.
_create_clubhub_id_endpoint_off_by_one(ids_in, is_xuid, decorations_in) ==
    LET ids == IF ids_in.t = "str" THEN <<ids_in.s>> ELSE ids_in.l
        decorations == IF decorations_in.t = "none" THEN <<>>
                       ELSE decorations_in.l
        id_subpath == IF ~is_xuid THEN "Ids" ELSE "Xuid"
        endpoint == CLUBHUB_URL \o <<"/clubs/", id_subpath, "(">>
                        \o Join(SEPARATOR, ids) \o <<")">>
    IN IF Len(ids) > MaxEndpointIds + 1 THEN Raise("ValueError")
       ELSE Return(IF decorations # <<>>
                   THEN endpoint \o <<"/decoration/">>
                            \o Join(<<",">>, decorations)
                   ELSE endpoint)

_create_clubhub_id_endpoint(ids_in, is_xuid, decorations_in) ==
    LET ids == IF ids_in.t = "str" THEN <<ids_in.s>> ELSE ids_in.l
        decorations == IF decorations_in.t = "none" THEN <<>>
                       ELSE decorations_in.l
        id_subpath == IF ~is_xuid THEN "Ids" ELSE "Xuid"
        endpoint == CLUBHUB_URL \o <<"/clubs/", id_subpath, "(">>
                        \o Join(SEPARATOR, ids) \o <<")">>
    IN IF Len(ids) > MaxEndpointIds THEN Raise("ValueError")
       ELSE Return(IF decorations # <<>>
                   THEN endpoint \o <<"/decoration/">>
                            \o Join(<<",">>, decorations)
                   ELSE endpoint)

\* Inputs of the club hub operations.
LongIdList(n) == [i \in 1..n |-> <<"c">> \o Digits(i)]

RECURSIVE SeqsUpTo(_, _)
SeqsUpTo(S, n) ==
    IF n = 0 THEN {<<>>}
    ELSE LET shorter == SeqsUpTo(S, n - 1)
         IN shorter \cup {Append(l, x) : l \in shorter, x \in S}

IdLists ==
    SeqsUpTo(ClubIds, ShortIdListLen)
        \cup {LongIdList(n) : n \in (ShortIdListLen + 1)..MaxIdListLen}

IdInputs == {PStr(id) : id \in ClubIds} \cup {PList(l) : l \in IdLists}

DecorationInputs ==
    {None_, PList(<<>>), PList(<<<<"detail">>>>),
     PList(<<<<"settings">>, <<"roster(member moderator)">>>>)}

DefaultDecorations ==
    PList(<<<<"detail">>, <<"clubPresence">>,
            <<"roster(member moderator requestedToJoin banned recommended)">>,
            <<"settings">>>>)

\* A club as the service sends it: of the fields of Club, the id, the state
\* and the time the suspension ends (None_ for a field the response lacks).
WireClub(id, state, until) ==
    [id |-> id, state |-> state, suspendedUntilUtc |-> until]

WireClubs ==
    {WireClub("clubA", PStr(<<"normal">>), None_),
     WireClub("clubA", PStr(<<"normal">>), PStr(<<"2024-02-29T07:05:00Z">>)),
     WireClub("clubA", PStr(<<"suspended">>), None_),
     WireClub("clubA", PStr(<<"suspended">>),
              PStr(<<"2024-02-29T07:05:00Z">>)),
     WireClub("clubB", None_, None_)}

ClubsBodies ==
    {ClubsBody(<<>>), Body("other"),
     ClubsBody(<<WireClub("clubA", PStr(<<"normal">>), None_),
                 WireClub("clubA", PStr(<<"suspended">>),
                          PStr(<<"2024-02-29T07:05:00Z">>))>>)}
        \cup {ClubsBody(<<club>>) : club \in WireClubs}

\* Club: state is a required str, suspended_until_utc an Optional[datetime];
\* the class has no validator, so each field is validated on its own.
Club(obj) ==
    IF obj.state.t = "none" THEN Raise("ValidationError")
    ELSE Return([id |-> obj.id, state |-> obj.state.s,
                 suspended_until_utc |-> obj.suspendedUntilUtc])

\* SearchClubsResponse.parse_raw(resp.text): clubs is a List[Club].
SearchClubsResponse_parse_raw(text) ==
    IF text.shape # "SearchClubsResponse" THEN Raise("ValidationError")
    ELSE IF \E i \in 1..Len(text.clubs) : Club(text.clubs[i]).kind = "raise"
    THEN Raise("ValidationError")
    ELSE Return([model |-> "SearchClubsResponse",
                 body |-> [text EXCEPT !.clubs =
                              [i \in 1..Len(text.clubs) |->
                                  Club(text.clubs[i]).val]]])

call_create_clubhub_id_endpoint ==
    /\ op = "idle"
    /\ \E ids \in IdInputs, is_xuid \in BOOLEAN, decorations \in DecorationInputs :
        /\ op' = "_create_clubhub_id_endpoint"
        /\ args' = [ids |-> ids, is_xuid |-> is_xuid,
                    decorations |-> decorations]
        /\ sent' = <<>>
        /\ resp' = NoResp
        /\ UNCHANGED <<tables, inflight>>
        /\ result' = _create_clubhub_id_endpoint(ids, is_xuid, decorations)

\* [club for club in response.clubs] of a parsed SearchClubsResponse; a
\* failed parse stays the failure.
ClubList(parsed) ==
    IF parsed.kind = "return" THEN Return(parsed.val.body.clubs) ELSE parsed

\* The first club, or None when the list is empty.
FirstClub_or_none(clubs) ==
    IF clubs.kind # "return" THEN clubs
    ELSE IF clubs.val = <<>> THEN Return(None_)
    ELSE Return(clubs.val[1])

\* (await self.get_clubs(...))[0]
FirstClub(clubs) ==
    IF clubs.kind # "return" THEN clubs
    ELSE IF clubs.val = <<>> THEN Raise("IndexError")
    ELSE Return(clubs.val[1])

\* _send_clubhub_decoration_request, from the endpoint to the list of clubs
\* get_clubs makes of the response; get_club takes the first of them.
_send_clubhub_decoration_request(name, a, club_ids, decorations, kwargs, r, first) ==
    LET url == _create_clubhub_id_endpoint(club_ids, FALSE, decorations)
        clubs == ClubList(SearchClubsResponse_parse_raw(r.text))
    IN IF url.kind = "raise" THEN Fail(name, a, url.exc)
       ELSE Invoke(name, a, "GET",
                   [url |-> url.val, headers |-> HEADERS_CLUBHUB],
                   kwargs, r,
                   Checked(r, IF first THEN FirstClub(clubs) ELSE clubs))

get_clubs ==
    /\ op = "idle"
    /\ \E club_ids \in IdInputs, decorations \in DecorationInputs,
       kwargs \in Kwargs, r \in Replies(ClubsBodies) :
        _send_clubhub_decoration_request(
            "get_clubs",
            [club_ids |-> club_ids, decorations |-> decorations,
             kwargs |-> kwargs],
            club_ids,
            IF decorations.t = "none" THEN DefaultDecorations ELSE decorations,
            kwargs, r, FALSE)

get_club ==
    /\ op = "idle"
    /\ \E club_id \in ClubIds, decorations \in DecorationInputs,
       kwargs \in Kwargs, r \in Replies(ClubsBodies) :
        _send_clubhub_decoration_request(
            "get_club",
            [club_id |-> club_id, decorations |-> decorations,
             kwargs |-> kwargs],
            PList(<<club_id>>),
            IF decorations.t = "none" THEN DefaultDecorations ELSE decorations,
            kwargs, r, TRUE)

get_club_associations ==
    /\ op = "idle"
    /\ \E xuid \in {None_} \cup {PStr(x) : x \in Xuids}, kwargs \in Kwargs,
       r \in Replies(ClubsBodies) :
        LET a == [xuid |-> xuid, kwargs |-> kwargs]
            url == _create_clubhub_id_endpoint(
                       IF Truthy(xuid) THEN xuid ELSE PStr(ClientXuid),
                       TRUE, PList(<<<<"detail">>>>))
        IN IF url.kind = "raise" THEN Fail("get_club_associations", a, url.exc)
           ELSE Invoke("get_club_associations", a, "GET",
                       [url |-> url.val, headers |-> HEADERS_CLUBHUB],
                       kwargs, r,
                       Checked(r, ClubList(SearchClubsResponse_parse_raw(r.text))))

TitleIds == {<<"title1">>, <<"title2">>}

get_club_recommendations ==
    /\ op = "idle"
    /\ \E title_id \in {None_} \cup {PStr(x) : x \in TitleIds}, kwargs \in Kwargs,
       r \in Replies(ClubsBodies) :
        LET endpoint == <<"/clubs/recommendations">>
                            \o (IF Truthy(title_id)
                                THEN <<"ByTitle(">> \o title_id.s \o <<")">>
                                ELSE <<>>)
                            \o <<"/decoration/detail">>
        IN Invoke("get_club_recommendations",
                  [title_id |-> title_id, kwargs |-> kwargs],
                  IF Truthy(title_id) THEN "GET" ELSE "POST",
                  [url |-> CLUBHUB_URL \o endpoint, headers |-> HEADERS_CLUBHUB],
                  kwargs, r,
                  Checked(r, ClubList(SearchClubsResponse_parse_raw(r.text))))

\* Inputs of the search.
Queries == {PStr(<<>>), PStr(<<"halo">>), PStr(<<"halo", " ", "3">>)}

TitleFilters ==
    {None_, PList(<<>>), PList(<<<<"title1">>>>),
     PList(<<<<"title1">>, <<"title2">>>>), PList(<<<<"title2">>, <<"title1">>>>)}

TagFilters == {None_, PList(<<>>), PList(<<<<"casual">>, <<"allages">>>>)}

CountFilters == {None_, PInt(0), PInt(25)}

search_clubs ==
    /\ op = "idle"
    /\ \E query \in Queries, titles \in TitleFilters, tags \in TagFilters,
       count \in CountFilters, kwargs \in Kwargs,
       r \in Replies({Body("SearchClubsResponse"), Body("other")}) :
        LET a == [query |-> query, titles |-> titles, tags |-> tags,
                  count |-> count, kwargs |-> kwargs]
            params == _create_search_params(
                          query, <<<<"titles", titles>>, <<"tags", tags>>,
                                   <<"count", count>>>>)
        IN IF params.kind = "raise" THEN Fail("search_clubs", a, params.exc)
           ELSE Invoke("search_clubs", a, "GET",
                       [url |-> CLUBHUB_URL \o <<"/clubs/search">>,
                        headers |-> HEADERS_CLUBHUB,
                        params |-> IF params.val # EmptyDict THEN params.val
                                   ELSE None_],
                       kwargs, r,
                       Checked(r, parse_raw("SearchClubsResponse", r.text)))

\* _create_search_params called with any keyword filters.
FilterKeys == {"titles", "count", "q"}

FilterValues ==
    {None_, PStr(<<>>), PStr(<<"x">>), PInt(25), PList(<<>>),
     PList(<<<<"a">>, <<"b">>>>), PList(<<<<"b">>, <<"a">>>>)}

FilterItems ==
    {<<>>}
        \cup {<<<<k, v>>>> : k \in FilterKeys, v \in FilterValues}
        \cup {<<<<k1, v1>>, <<k2, v2>>>> :
                  k1 \in FilterKeys, v1 \in FilterValues,
                  k2 \in FilterKeys \ {"titles"}, v2 \in FilterValues}

DistinctKeys(items) ==
    \A i, j \in 1..Len(items) : items[i][1] = items[j][1] => i = j

call_create_search_params ==
    /\ op = "idle"
    /\ \E query \in Queries, items \in FilterItems :
        /\ DistinctKeys(items)
        /\ op' = "_create_search_params"
        /\ args' = [query |-> query, items |-> items]
        /\ sent' = <<>>
        /\ resp' = NoResp
        /\ UNCHANGED <<tables, inflight>>
        /\ result' = _create_search_params(query, items)

(***************************************************************************)
(* ClubProvider: club presence.                                            *)
(***************************************************************************)
Presences == {"InClub", "Chat"}

get_presence_counts ==
    /\ op = "idle"
    /\ \E club_id \in ClubIds, kwargs \in Kwargs,
       r \in Replies({Body("GetPresenceResponse"), Body("other")}) :
        Invoke("get_presence_counts", [club_id |-> club_id, kwargs |-> kwargs],
               "GET",
               [url |-> CLUBPRESENCE_URL \o <<"/clubs/">> \o club_id
                            \o <<"/users/count">>,
                headers |-> HEADERS_CLUBPRESENCE],
               kwargs, r,
               Checked(r, parse_raw("GetPresenceResponse", r.text)))

\* set_presence_within_club does not call raise_for_status(); it returns
\* resp.status == 204, an attribute read that fails on a response object
\* without a status attribute.
set_presence_result(r) ==
    IF "status" \in r.attrs THEN Return(PBool(r.status = 204))
    ELSE Raise("AttributeError")

set_presence_within_club ==
    /\ op = "idle"
    /\ \E club_id \in ClubIds, xuid \in Xuids, presence \in Presences,
       kwargs \in Kwargs, r \in Replies({Body("empty")}) :
        Invoke("set_presence_within_club",
               [club_id |-> club_id, xuid |-> xuid, presence |-> presence,
                kwargs |-> kwargs],
               "POST",
               [url |-> CLUBPRESENCE_URL \o <<"/clubs/">> \o club_id
                            \o <<"/users/xuid(">> \o xuid \o <<")">>,
                headers |-> HEADERS_CLUBPRESENCE,
                json |-> [userPresenceState |-> presence]],
               kwargs, r,
               set_presence_result(r))

(***************************************************************************)
(* ClubProvider: club profile.                                             *)
(***************************************************************************)
CLUBPROFILE_URL == <<"https://clubprofile.xboxlive.com">>

HEADERS_CLUBPROFILE == tables.HEADERS_CLUBPROFILE

\* ClubSettingsContract.__fields__
ContractFields ==
    {"description", "creation_date_utc", "background_image_url",
     "display_image_url", "preferred_color", "activity_feed_enabled",
     "chat_enabled", "lfg_enabled", "preferred_locale",
     "request_to_join_enabled", "leave_enabled",
     "transfer_ownership_enabled", "is_promoted_club", "tags", "titles",
     "who_can_post_to_feed", "who_can_invite", "who_can_chat",
     "who_can_create_lfg", "who_can_join_lfg", "mature_content_enabled",
     "watch_club_titles_only", "get_recommendation_enabled",
     "search_enabled", "delete_enabled", "rename_enabled", "joinability"}

\* The fields declared without Optional: the model requires a value for them.
RequiredContractFields == {"creation_date_utc"}

\* ClubSettingsContract(**values): a field declared Optional is None when no
\* value is given, a field declared without Optional must be given.
ClubSettingsContract(values) ==
    IF RequiredContractFields \subseteq DOMAIN values
    THEN Return([f \in ContractFields |->
                    IF f \in DOMAIN values THEN values[f] ELSE None_])
    ELSE Raise("ValidationError")

\* to_pascal(key): the words between the underscores, each capitalized.
to_pascal(key) ==
    CASE key = "description" -> "Description"
      [] key = "creation_date_utc" -> "CreationDateUtc"
      [] key = "background_image_url" -> "BackgroundImageUrl"
      [] key = "display_image_url" -> "DisplayImageUrl"
      [] key = "preferred_color" -> "PreferredColor"
      [] key = "activity_feed_enabled" -> "ActivityFeedEnabled"
      [] key = "chat_enabled" -> "ChatEnabled"
      [] key = "lfg_enabled" -> "LfgEnabled"
      [] key = "preferred_locale" -> "PreferredLocale"
      [] key = "request_to_join_enabled" -> "RequestToJoinEnabled"
      [] key = "leave_enabled" -> "LeaveEnabled"
      [] key = "transfer_ownership_enabled" -> "TransferOwnershipEnabled"
      [] key = "is_promoted_club" -> "IsPromotedClub"
      [] key = "tags" -> "Tags"
      [] key = "titles" -> "Titles"
      [] key = "who_can_post_to_feed" -> "WhoCanPostToFeed"
      [] key = "who_can_invite" -> "WhoCanInvite"
      [] key = "who_can_chat" -> "WhoCanChat"
      [] key = "who_can_create_lfg" -> "WhoCanCreateLfg"
      [] key = "who_can_join_lfg" -> "WhoCanJoinLfg"
      [] key = "mature_content_enabled" -> "MatureContentEnabled"
      [] key = "watch_club_titles_only" -> "WatchClubTitlesOnly"
      [] key = "get_recommendation_enabled" -> "GetRecommendationEnabled"
      [] key = "search_enabled" -> "SearchEnabled"
      [] key = "delete_enabled" -> "DeleteEnabled"
      [] key = "rename_enabled" -> "RenameEnabled"
      [] key = "joinability" -> "Joinability"
      [] OTHER -> key

\* The loop of update_club_profile over setting_values.items(): st holds
\* contract, modified_fields and request_kwargs.
RECURSIVE settings_loop(_, _)
settings_loop(items, st) ==
    IF items = <<>> THEN st
    ELSE LET key == Head(items).key
             value == Head(items).value
         IN settings_loop(
                Tail(items),
                IF key \notin ContractFields
                THEN [st EXCEPT !.request_kwargs = DictSet(@, key, value)]
                ELSE [st EXCEPT
                         !.contract = IF value.t # "none"
                                      THEN DictSet(@, key, value) ELSE @,
                         !.modified_fields = Append(@, to_pascal(key))])

\* json.loads(contract.json()): json() is called with no exclusion, so every
\* field of the model is written under its name, an unset one as null.
contract_json(contract) == [f \in ContractFields |-> contract[f]]

\* Inputs of update_club_profile: the keyword pairs of the caller, in the
\* order given.
MaxSettings == 2

SettingKeys ==
    {"description", "preferred_locale", "creation_date_utc", "timeout", "json"}

SettingValues == {None_, PStr(<<"text">>)}

SettingItems ==
    {items \in SeqsUpTo([key : SettingKeys, value : SettingValues],
                        MaxSettings) :
        \A i, j \in 1..Len(items) : items[i].key = items[j].key => i = j}

update_club_profile_call(t, club_id, setting_values) ==
    LET contract == ClubSettingsContract(EmptyDict)
    IN IF contract.kind = "raise" THEN contract
       ELSE LET st == settings_loop(
                          setting_values,
                          [contract |-> contract.val,
                           modified_fields |-> <<>>,
                           request_kwargs |-> EmptyDict])
            IN Call("POST",
                    [url |-> CLUBPROFILE_URL \o <<"/clubs/">> \o club_id
                                 \o <<"/profile">>,
                     headers |-> t.HEADERS_CLUBPROFILE,
                     json |-> [requestContract |-> contract_json(st.contract),
                               modifiedFields |-> st.modified_fields]],
                    st.request_kwargs, t)

update_club_profile_rest(r) == Checked(r, Return(None_))

update_club_profile ==
    /\ op = "idle"
    /\ \E club_id \in ClubIds, setting_values \in SettingItems,
          r \in Replies({Body("empty")}) :
        LET a == [club_id |-> club_id, setting_values |-> setting_values]
            call == update_club_profile_call(tables, club_id, setting_values)
        IN IF call.kind = "raise"
           THEN Fail("update_club_profile", a, call.exc)
           ELSE InvokeWith("update_club_profile", a, call.verb, call.kw,
                           call.kwargs, r, update_club_profile_rest(r),
                           call.tables)

(***************************************************************************)
(* ClubProvider: creation and suspension.                                  *)
(***************************************************************************)
ClubTypes == {<<"open">>, <<"secret">>}

\* ClubGenre
ClubGenres == {<<"social">>, <<"title">>}

\* UUID(int=0), and the UUIDs of the callers.
_NULL_UUID == [int |-> 0, text |-> <<"00000000-0000-0000-0000-000000000000">>]

TitleFamilyIds ==
    {_NULL_UUID, [int |-> 1, text |-> <<"00000000-0000-0000-0000-000000000001">>]}

create_club ==
    /\ op = "idle"
    /\ \E name \in Names, club_type \in ClubTypes, genre \in ClubGenres,
          title_family_id \in TitleFamilyIds, kwargs \in Kwargs,
          r \in Replies({Body("ClubSummary"), Body("other")}) :
        LET data == [name |-> name, type |-> club_type, genre |-> genre]
        IN Invoke("create_club",
                  [name |-> name, club_type |-> club_type, genre |-> genre,
                   title_family_id |-> title_family_id, kwargs |-> kwargs],
                  "POST",
                  [url |-> CLUBACCOUNTS_URL \o <<"/clubs/create">>,
                   headers |-> HEADERS_CLUBACCOUNTS,
                   json |-> IF title_family_id.int # 0
                            THEN DictSet(data, "titleFamilyId",
                                         title_family_id.text)
                            ELSE data],
                  kwargs, r,
                  Checked(r, parse_raw("ClubSummary", r.text)))

DeleteDates ==
    {[year |-> 2024, month |-> 2, day |-> 29, hour |-> 7, minute |-> 5,
      second |-> 0]}

\* json.loads(ClubSuspension.parse_obj({"deleteAfter": ...}).json())
suspension_json(delete_date) ==
    [deleteAfter |-> delete_date]

suspend_club ==
    /\ op = "idle"
    /\ \E club_id \in ClubIds, delete_date \in DeleteDates, kwargs \in Kwargs,
          r \in Replies({Body("ClubSuspension"), Body("other")}) :
        Invoke("suspend_club",
               [club_id |-> club_id, delete_date |-> delete_date,
                kwargs |-> kwargs],
               "PUT",
               [url |-> ClubIdUrl(club_id) \o <<"/suspension/owner">>,
                headers |-> HEADERS_CLUBACCOUNTS,
                json |-> suspension_json(delete_date)],
               kwargs, r,
               Checked(r, parse_raw("ClubSuspension", r.text)))

(***************************************************************************)
(* ClubProvider: club roster.                                              *)
(***************************************************************************)
CLUBROSTER_URL == <<"https://clubroster.xboxlive.com">>

HEADERS_CLUBROSTER == tables.HEADERS_CLUBROSTER

\* ClubRole: the members the roster operations name.
MODERATOR == [member |-> "MODERATOR", value |-> "Moderator"]
BANNED == [member |-> "BANNED", value |-> "Banned"]
FOLLOWER == [member |-> "FOLLOWER", value |-> "Follower"]

\* f"{role}" for a member of an Enum that mixes in str: the value of the
\* member up to Python 3.10, the name ClubRole.<MEMBER> from Python 3.11 on.
EnumFormats == {"value", "name"}

FormatRole(role, format) ==
    IF format = "value" THEN <<role.value>>
    ELSE <<"ClubRole.", role.member>>

UserUrl(club_id, xuid) ==
    CLUBROSTER_URL \o <<"/clubs/">> \o club_id \o <<"/users/xuid(">> \o xuid
        \o <<")">>

_update_users_club_roles(name, a, club_id, xuid, advance, kwargs, r) ==
    Invoke(name, a, IF advance THEN "PUT" ELSE "DELETE",
           [url |-> UserUrl(club_id, xuid), headers |-> HEADERS_CLUBROSTER],
           kwargs, r,
           Checked(r, parse_raw("UpdateRolesResponse", r.text)))

_set_users_club_roles(name, a, club_id, xuid, role, add_role, format, kwargs, r) ==
    Invoke(name, a, IF add_role THEN "POST" ELSE "DELETE",
           [url |-> UserUrl(club_id, xuid) \o <<"/roles">>
                        \o (IF add_role THEN <<>>
                            ELSE <<"/">> \o FormatRole(role, format)),
            headers |-> HEADERS_CLUBROSTER,
            json |-> IF add_role THEN [roles |-> <<role.value>>]
                     ELSE EmptyDict],
           kwargs, r,
           Checked(r, parse_raw("UpdateRolesResponse", r.text)))

RosterReplies == Replies({Body("UpdateRolesResponse"), Body("other")})

OptionalXuids == {None_, PStr(<<>>)} \cup {PStr(x) : x \in Xuids}

\* xuid or self.client.xuid
XuidOrOwn(xuid) == IF Truthy(xuid) THEN xuid.s ELSE ClientXuid

add_user_to_club ==
    /\ op = "idle"
    /\ \E club_id \in ClubIds, xuid \in OptionalXuids, kwargs \in Kwargs,
          r \in RosterReplies :
        _update_users_club_roles(
            "add_user_to_club",
            [club_id |-> club_id, xuid |-> xuid, kwargs |-> kwargs],
            club_id, XuidOrOwn(xuid), TRUE, kwargs, r)

remove_user_from_club ==
    /\ op = "idle"
    /\ \E club_id \in ClubIds, xuid \in OptionalXuids, kwargs \in Kwargs,
          r \in RosterReplies :
        _update_users_club_roles(
            "remove_user_from_club",
            [club_id |-> club_id, xuid |-> xuid, kwargs |-> kwargs],
            club_id, XuidOrOwn(xuid), FALSE, kwargs, r)

follow_club ==
    /\ op = "idle"
    /\ \E club_id \in ClubIds, format \in EnumFormats, kwargs \in Kwargs,
          r \in RosterReplies :
        _set_users_club_roles(
            "follow_club", [club_id |-> club_id, kwargs |-> kwargs],
            club_id, ClientXuid, FOLLOWER, TRUE, format, kwargs, r)

unfollow_club ==
    /\ op = "idle"
    /\ \E club_id \in ClubIds, format \in EnumFormats, kwargs \in Kwargs,
          r \in RosterReplies :
        _set_users_club_roles(
            "unfollow_club", [club_id |-> club_id, kwargs |-> kwargs],
            club_id, ClientXuid, FOLLOWER, FALSE, format, kwargs, r)

ban_user_from_club ==
    /\ op = "idle"
    /\ \E club_id \in ClubIds, xuid \in Xuids, format \in EnumFormats,
          kwargs \in Kwargs, r \in RosterReplies :
        _set_users_club_roles(
            "ban_user_from_club",
            [club_id |-> club_id, xuid |-> PStr(xuid), kwargs |-> kwargs],
            club_id, xuid, BANNED, TRUE, format, kwargs, r)

unban_user_from_club ==
    /\ op = "idle"
    /\ \E club_id \in ClubIds, xuid \in Xuids, format \in EnumFormats,
          kwargs \in Kwargs, r \in RosterReplies :
        _set_users_club_roles(
            "unban_user_from_club",
            [club_id |-> club_id, xuid |-> PStr(xuid), kwargs |-> kwargs],
            club_id, xuid, BANNED, FALSE, format, kwargs, r)

add_club_moderator ==
    /\ op = "idle"
    /\ \E club_id \in ClubIds, xuid \in Xuids, format \in EnumFormats,
          kwargs \in Kwargs, r \in RosterReplies :
        _set_users_club_roles(
            "add_club_moderator",
            [club_id |-> club_id, xuid |-> PStr(xuid), kwargs |-> kwargs],
            club_id, xuid, MODERATOR, TRUE, format, kwargs, r)

remove_club_moderator ==
    /\ op = "idle"
    /\ \E club_id \in ClubIds, xuid \in Xuids, format \in EnumFormats,
          kwargs \in Kwargs, r \in RosterReplies :
        _set_users_club_roles(
            "remove_club_moderator",
            [club_id |-> club_id, xuid |-> PStr(xuid), kwargs |-> kwargs],
            club_id, xuid, MODERATOR, FALSE, format, kwargs, r)

(***************************************************************************)
(* calendar.monthrange and datetime.replace, as the date helper uses them. *)
(***************************************************************************)
IsLeap(y) == y % 4 = 0 /\ (y % 100 # 0 \/ y % 400 = 0)

DaysInMonth(y, m) ==
    CASE m = 2 -> IF IsLeap(y) THEN 29 ELSE 28
      [] m \in {4, 6, 9, 11} -> 30
      [] OTHER -> 31

DaysBeforeYear(y) ==
    LET p == y - 1 IN p * 365 + (p \div 4) - (p \div 100) + (p \div 400)

RECURSIVE DaysBeforeMonth(_, _)
DaysBeforeMonth(y, m) ==
    IF m = 1 THEN 0 ELSE DaysBeforeMonth(y, m - 1) + DaysInMonth(y, m - 1)

\* date.weekday(): Monday is 0.
Weekday(y, m, d) == (DaysBeforeYear(y) + DaysBeforeMonth(y, m) + d + 6) % 7

\* monthrange(year, month) is the pair (weekday of the first day, number of
\* days); Python indexes it from 0.
monthrange(y, m) == <<Weekday(y, m, 1), DaysInMonth(y, m)>>

BoolToInt(b) == IF b THEN 1 ELSE 0

\* now.replace(year=, month=, day=): ValueError for a day the month lacks.
Replace(now, y, m, d) ==
    IF d \in 1..DaysInMonth(y, m)
    THEN Return([now EXCEPT !.year = y, !.month = m, !.day = d])
    ELSE Raise("ValueError")

(***************************************************************************)
(* FeedProvider._feed_start_date_time                                      *)
(***************************************************************************)
_feed_start_date_time(months_ago_in, end_of_month, now) ==
    LET years_ago == months_ago_in \div 12
        months_ago == months_ago_in % 12
        year == IF now.month > months_ago THEN now.year
                ELSE now.year - (years_ago + 1)
        month == IF now.month > months_ago THEN now.month - months_ago ELSE 12
    IN Replace(now, year, month,
               monthrange(year, month)[BoolToInt(end_of_month) + 1])

RefDates ==
    [year : FirstRefYear..(FirstRefYear + NumRefYears - 1), month : 1..12,
     day : {15}, hour : {9}, minute : {30}, second : {0}]

call_feed_start_date_time ==
    /\ op = "idle"
    /\ \E months_ago \in 0..MaxMonthsAgo, end_of_month \in BOOLEAN, now \in RefDates :
        /\ op' = "_feed_start_date_time"
        /\ args' = [months_ago |-> months_ago, end_of_month |-> end_of_month,
                    now |-> now]
        /\ sent' = <<>>
        /\ resp' = NoResp
        /\ UNCHANGED <<tables, inflight>>
        /\ result' = _feed_start_date_time(months_ago, end_of_month, now)

(***************************************************************************)
(* FeedProvider: activity feeds.                                           *)
(***************************************************************************)
ACTIVITY_URL == <<"https://avty.xboxlive.com">>

HEADERS_ACTIVITY == tables.HEADERS_ACTIVITY

PDateTime(d) == [t |-> "datetime", d |-> d]

\* A number in at least `width` decimal digits (%m, %d, %H, %M, %S, %Y).
RECURSIVE Padded(_, _)
Padded(digits, width) ==
    IF Len(digits) >= width THEN digits ELSE Padded(<<"0">> \o digits, width)

\* start_date_time.strftime("%m/%d/%Y+%H:%M:%S")
strftime(d) ==
    Padded(Digits(d.month), 2) \o <<"/">> \o Padded(Digits(d.day), 2)
        \o <<"/">> \o Padded(Digits(d.year), 4) \o <<"+">>
        \o Padded(Digits(d.hour), 2) \o <<":">> \o Padded(Digits(d.minute), 2)
        \o <<":">> \o Padded(Digits(d.second), 2)

\* urllib.parse.quote(s, safe=""): digits stay, the separators of the
\* timestamp are percent-encoded.
QuoteToken(c) ==
    CASE c = "/" -> "%2F"
      [] c = "+" -> "%2B"
      [] c = ":" -> "%3A"
      [] OTHER -> c

quote(s) == [i \in 1..Len(s) |-> QuoteToken(s[i])]

\* _send_activity_request joining the type lists with commas.
activity_request_params_comma_joined(ap) ==
    LET p1 == IF ap.num_items.t # "none"
              THEN DictSet(EmptyDict, "numItems", PyStr(ap.num_items))
              ELSE EmptyDict
        p2 == IF ap.include_self.t # "none"
              THEN DictSet(p1, "includeSelf", Lower(PyStr(ap.num_items)))
              ELSE p1
        p3 == IF Truthy(ap.activity_types)
              THEN DictSet(p2, "activityTypes",
                           Join(<<",">>, ap.activity_types.l))
              ELSE p2
        p4 == IF Truthy(ap.exclude_types)
              THEN DictSet(p3, "excludeTypes", Join(<<",">>, ap.exclude_types.l))
              ELSE p3
    IN IF Truthy(ap.start_date_time)
       THEN DictSet(p4, "startDateTime", quote(strftime(ap.start_date_time.d)))
       ELSE p4

\* The query parameters _send_activity_request builds from activity_params;
\* a key the caller did not give pops as None.
activity_request_params(ap) ==
    LET p1 == IF ap.num_items.t # "none"
              THEN DictSet(EmptyDict, "numItems", PyStr(ap.num_items))
              ELSE EmptyDict
        p2 == IF ap.include_self.t # "none"
              THEN DictSet(p1, "includeSelf", Lower(PyStr(ap.num_items)))
              ELSE p1
        p3 == IF Truthy(ap.activity_types)
              THEN DictSet(p2, "activityTypes",
                           Join(<<";">>, ap.activity_types.l))
              ELSE p2
        p4 == IF Truthy(ap.exclude_types)
              THEN DictSet(p3, "excludeTypes", Join(<<";">>, ap.exclude_types.l))
              ELSE p3
    IN IF Truthy(ap.start_date_time)
       THEN DictSet(p4, "startDateTime", quote(strftime(ap.start_date_time.d)))
       ELSE p4

\* ActivityItemType
ActivityItemTypes ==
    {"Unknown", "Played", "Followed", "TextPost", "UserPost", "Achievement",
     "LegacyAchievement", "Screenshot", "GameDVR", "BroadcastStart",
     "BroadcastEnd", "GamertagChanged", "Container"}

\* The fields a class of activity item requires, by the class that declares
\* them: "base" the required fields of BaseActivityItem, "item" those of
\* ActivityItem, and so on.  An item of a response is described by its
\* activityItemType and the groups of fields it carries in full.
RequiredFields(class) ==
    CASE class = "ActivityItem" -> {"base", "item"}
      [] class = "AchievementActivityItem" -> {"base", "item", "achievement"}
      [] class = "ClipActivityItem" -> {"base", "item", "clip"}
      [] class = "ScreenshotActivityItem" -> {"base", "item", "screenshot"}
      [] class = "UserPostActivityItem" -> {"base", "item", "user_post"}
      [] class = "ContainerActivityItem" -> {"base", "container"}

\* ContainerActivityItem.feed_items: the classes of its Union, in order.
ContainerUnion ==
    <<"AchievementActivityItem", "ScreenshotActivityItem",
      "ClipActivityItem", "UserPostActivityItem", "ActivityItem">>

\* ActivityResponse.activity_items: the classes of its Union, in order.
ResponseUnion ==
    <<"AchievementActivityItem", "ScreenshotActivityItem",
      "ClipActivityItem", "UserPostActivityItem", "ContainerActivityItem",
      "ActivityItem">>

\* Validation of an item against one class: the required fields are there
\* and activityItemType is a member of the enumeration; fields the class
\* does not declare are ignored.
HasFields(item, class) ==
    /\ RequiredFields(class) \subseteq item.has
    /\ item.activity_item_type \in ActivityItemTypes

\* Validation against a Union: the first class, in the order of the Union,
\* that the item validates against; no class looks at activityItemType to
\* choose.  A ContainerActivityItem validates each of its feed_items against
\* the Union of the container.
RECURSIVE validate_union(_, _)
Validates(item, class) ==
    /\ HasFields(item, class)
    /\ class = "ContainerActivityItem" =>
           \A i \in 1..Len(item.feed_items) :
               validate_union(item.feed_items[i], ContainerUnion).kind
                   = "return"

validate_union(item, union) ==
    IF \E i \in 1..Len(union) : Validates(item, union[i])
    THEN LET first == CHOOSE i \in 1..Len(union) :
                          /\ Validates(item, union[i])
                          /\ \A j \in 1..(i - 1) : ~Validates(item, union[j])
         IN Return([class |-> union[first],
                    activity_item_type |-> item.activity_item_type])
    ELSE Raise("ValidationError")

\* ActivityResponse.parse_raw(resp.text)
ActivityResponse_parse_raw(text) ==
    IF text.shape # "ActivityResponse" THEN Raise("ValidationError")
    ELSE LET items == [i \in 1..Len(text.activity_items) |->
                          validate_union(text.activity_items[i],
                                         ResponseUnion)]
         IN IF \E i \in 1..Len(items) : items[i].kind = "raise"
            THEN Raise("ValidationError")
            ELSE Return([model |-> "ActivityResponse", body |-> text,
                         activity_items |->
                             [i \in 1..Len(items) |-> items[i].val]])

\* Bodies of activity responses.
ActivityBody(items) == [shape |-> "ActivityResponse", activity_items |-> items]

Item(tag, has, feed_items) ==
    [activity_item_type |-> tag, has |-> has, feed_items |-> feed_items]

AchievementItem == Item("Achievement", {"base", "item", "achievement"}, <<>>)

ItemTags ==
    {"Achievement", "Screenshot", "GameDVR", "Container", "Played", "Liked"}

\* The groups of fields an item of the model carries: none, some or all of
\* the common ones, and those of up to two kinds of item.
ItemFields ==
    {common \cup kinds :
        common \in {{}, {"base"}, {"base", "item"}},
        kinds \in {k \in SUBSET {"achievement", "clip", "screenshot",
                                 "user_post", "container"} :
                       \A a, b, c \in k : a = b \/ b = c \/ a = c}}

NestedItems ==
    {<<>>, <<AchievementItem>>, <<Item("Played", {"base"}, <<>>)>>}

Items ==
    {x \in [activity_item_type : ItemTags, has : ItemFields,
            feed_items : NestedItems] :
        "container" \in x.has \/ x.feed_items = <<>>}

ItemLists ==
    {<<>>} \cup {<<x>> : x \in Items} \cup {<<AchievementItem, x>> : x \in Items}

\* _send_activity_request: what is left of activity_params goes to the
\* session as keyword arguments.
_send_activity_request(name, a, url, ap, kwargs, r) ==
    Invoke(name, a, "GET",
           [url |-> url, headers |-> HEADERS_ACTIVITY,
            params |-> activity_request_params(ap)],
           kwargs, r,
           Checked(r, ActivityResponse_parse_raw(r.text)))

\* activity_params[key] = default when activity_params.get(key) is None.
Defaulted(ap, key, default) ==
    IF ap[key].t = "none" THEN [ap EXCEPT ![key] = default] ELSE ap

\* The family default applied to a filter whenever that filter is missing.
DefaultTypes_per_filter(ap, key, default) ==
    IF ap[key].t = "none" THEN [ap EXCEPT ![key] = default] ELSE ap

\* The family's default type filter, when the caller gave neither list.
DefaultTypes(ap, key, default) ==
    IF ap.activity_types.t = "none" /\ ap.exclude_types.t = "none"
    THEN [ap EXCEPT ![key] = default]
    ELSE ap

\* get_user_activity_history with Achievement in place of LegacyAchievement.
user_history_params_plain_achievement(ap) ==
    DefaultTypes(Defaulted(ap, "num_items", PInt(20)), "activity_types",
                 PList(<<<<"GameDVR">>, <<"Achievement">>, <<"Screenshot">>>>))

\* The defaults of get_user_activity_history.
user_history_params(ap) ==
    DefaultTypes(Defaulted(ap, "num_items", PInt(20)), "activity_types",
                 PList(<<<<"GameDVR">>, <<"LegacyAchievement">>,
                         <<"Screenshot">>>>))

club_feed_params(ap) ==
    DefaultTypes(Defaulted(ap, "num_items", PInt(50)), "exclude_types",
                 PList(<<<<"BroadcastStart">>, <<"BroadcastEnd">>>>))

title_feed_types(ap) ==
    DefaultTypes(ap, "exclude_types",
                 PList(<<<<"Followed">>, <<"GamertagChanged">>, <<"Played">>>>))

\* get_xbox_activity_feed without its default item count.
xbox_feed_params_no_count(ap) ==
    DefaultTypes(
        Defaulted(ap, "include_self", PBool(TRUE)),
        "exclude_types",
        PList(<<<<"Played">>, <<"BroadcastStart">>, <<"BroadcastEnd">>>>))

xbox_feed_params(ap) ==
    DefaultTypes(
        Defaulted(Defaulted(ap, "num_items", PInt(50)), "include_self",
                  PBool(TRUE)),
        "exclude_types",
        PList(<<<<"Played">>, <<"BroadcastStart">>, <<"BroadcastEnd">>>>))

\* Inputs of the activity feeds.
ActivityParams ==
    [num_items : {None_, PInt(0), PInt(5)},
     include_self : {None_, PBool(TRUE), PBool(FALSE)},
     activity_types : {None_, PList(<<>>),
                       PList(<<<<"Achievement">>, <<"Screenshot">>>>)},
     exclude_types : {None_, PList(<<<<"Played">>>>)},
     start_date_time :
         {None_,
          PDateTime([year |-> 2024, month |-> 2, day |-> 29, hour |-> 7,
                     minute |-> 5, second |-> 0])}]

FeedNows == {d \in RefDates : d.month \in {1, 7}}

ActivityReplies == Replies({ActivityBody(<<AchievementItem>>), Body("other")})

PinsReplies == Replies({ActivityBody(items) : items \in ItemLists}
                       \cup {Body("other")})

get_user_activity_history ==
    /\ op = "idle"
    /\ \E xuid \in {None_} \cup {PStr(x) : x \in Xuids}, ap \in ActivityParams,
       kwargs \in Kwargs, r \in ActivityReplies :
        _send_activity_request(
            "get_user_activity_history",
            [xuid |-> xuid, activity_params |-> ap, kwargs |-> kwargs],
            ACTIVITY_URL \o <<"/users/xuid(">>
                \o (IF Truthy(xuid) THEN xuid.s ELSE ClientXuid)
                \o <<")/Activity/History">>
                \o (IF xuid.t = "none" THEN <<"/UnShared">> ELSE <<>>),
            user_history_params(ap), kwargs, r)

get_club_activity_feed ==
    /\ op = "idle"
    /\ \E club_id \in ClubIds, ap \in ActivityParams, kwargs \in Kwargs,
       r \in ActivityReplies :
        _send_activity_request(
            "get_club_activity_feed",
            [club_id |-> club_id, activity_params |-> ap, kwargs |-> kwargs],
            ACTIVITY_URL \o <<"/clubs/clubId(">> \o club_id
                \o <<")/activity/feed">>,
            club_feed_params(ap), kwargs, r)

get_title_activity_feed ==
    /\ op = "idle"
    /\ \E title_id \in TitleIds, ap \in ActivityParams, now \in FeedNows,
       kwargs \in Kwargs, r \in ActivityReplies :
        LET a == [title_id |-> title_id, activity_params |-> ap,
                  now |-> now, kwargs |-> kwargs]
            typed == title_feed_types(ap)
            start == _feed_start_date_time(3, TRUE, now)
            url == ACTIVITY_URL \o <<"/titles/titleId(">> \o title_id
                       \o <<")/activity/feed">>
        IN IF typed.start_date_time.t # "none"
           THEN _send_activity_request("get_title_activity_feed", a, url, typed,
                                    kwargs, r)
           ELSE IF start.kind = "raise"
           THEN Fail("get_title_activity_feed", a, start.exc)
           ELSE _send_activity_request(
                    "get_title_activity_feed", a, url,
                    [typed EXCEPT !.start_date_time = PDateTime(start.val)],
                    kwargs, r)

get_xbox_activity_feed ==
    /\ op = "idle"
    /\ \E ap \in ActivityParams, kwargs \in Kwargs, r \in ActivityReplies :
        _send_activity_request(
            "get_xbox_activity_feed",
            [activity_params |-> ap, kwargs |-> kwargs],
            ACTIVITY_URL \o <<"/users/xuid(">> \o ClientXuid \o <<")/XboxFeed">>,
            xbox_feed_params(ap), kwargs, r)

get_user_pins ==
    /\ op = "idle"
    /\ \E xuid \in {None_} \cup {PStr(x) : x \in Xuids}, kwargs \in Kwargs,
       r \in PinsReplies :
        Invoke("get_user_pins", [xuid |-> xuid, kwargs |-> kwargs], "GET",
               [url |-> ACTIVITY_URL \o <<"/timelines/User/">>
                            \o (IF Truthy(xuid) THEN xuid.s ELSE ClientXuid)
                            \o <<"/pins">>,
                headers |-> HEADERS_ACTIVITY],
               kwargs, r,
               Checked(r, ActivityResponse_parse_raw(r.text)))

(***************************************************************************)
(* FeedProvider: user posts, comments, chat feed and club moderation.      *)
(***************************************************************************)
USERPOSTS_URL == <<"https://userposts.xboxlive.com">>
COMMENTS_URL == <<"https://comments.xboxlive.com">>
CHATFEED_URL == <<"https://chatfd.xboxlive.com">>
CLUBMODERATION_URL == <<"https://clubmoderation.xboxlive.com">>

HEADERS_USERPOSTS == tables.HEADERS_USERPOSTS
HEADERS_COMMENTS == tables.HEADERS_COMMENTS
HEADERS_CHATFEED == tables.HEADERS_CHATFEED
HEADERS_CLUBMODERATION == tables.HEADERS_CLUBMODERATION

FeedItemIds == {<<"userposts.xboxlive.com/users/xuid(xuid1)/posts/post1">>}
Texts == {<<"text1">>}
MessageIds == {<<"message1">>}

\* parsed.<name>: the attribute of a parsed model.
Attribute(parsed, name) ==
    IF parsed.kind = "raise" THEN parsed
    ELSE Return([attribute |-> name, of |-> parsed.val])

delete_feed_item ==
    /\ op = "idle"
    /\ \E feed_item_id \in FeedItemIds, kwargs \in Kwargs,
          r \in Replies({Body("empty")}) :
        Invoke("delete_feed_item",
               [feed_item_id |-> feed_item_id, kwargs |-> kwargs],
               "DELETE",
               [url |-> <<"https://">> \o feed_item_id,
                headers |-> ContractVersion(EmptyDict, "2")],
               kwargs, r,
               Checked(r, Return(None_)))

\* The timeline of the caller, as post_text and share_item name it.
OwnTimelines ==
    <<[timelineType |-> <<"User">>, timelineOwner |-> ClientXuid]>>

post_text ==
    /\ op = "idle"
    /\ \E text \in Texts, kwargs \in Kwargs,
          r \in Replies({Body("PostResponse"), Body("other")}) :
        Invoke("post_text", [text |-> text, kwargs |-> kwargs],
               "POST",
               [url |-> USERPOSTS_URL \o <<"/users/me/posts">>,
                headers |-> HEADERS_USERPOSTS,
                json |-> [postType |-> <<"Text">>, postText |-> text,
                          timelines |-> OwnTimelines]],
               kwargs, r,
               Checked(r, parse_raw("PostResponse", r.text)))

share_item ==
    /\ op = "idle"
    /\ \E feed_item_id \in FeedItemIds,
          text \in {None_} \cup {PStr(x) : x \in Texts},
          parent_id \in {None_, PStr(<<>>), PStr(<<"parent1">>)},
          kwargs \in Kwargs,
          r \in Replies({Body("PostResponse"), Body("other")}) :
        LET locator == [locator |-> feed_item_id]
            post_type_data ==
                IF Truthy(parent_id)
                THEN DictSet(locator, "parentId", parent_id.s)
                ELSE locator
        IN Invoke("share_item",
                  [feed_item_id |-> feed_item_id, text |-> text,
                   parent_id |-> parent_id, kwargs |-> kwargs],
                  "POST",
                  [url |-> USERPOSTS_URL \o <<"/users/me/posts">>,
                   headers |-> HEADERS_USERPOSTS,
                   json |-> [postType |-> <<"XboxLink">>,
                             postText |-> IF Truthy(text) THEN text.s
                                          ELSE <<>>,
                             postTypeData |-> post_type_data,
                             timelines |-> OwnTimelines]],
                  kwargs, r,
                  Checked(r, parse_raw("PostResponse", r.text)))

PostPaths == {<<>>, <<<<"path1">>>>}

\* The operation passes the comments URL as the headers of the request.
get_post_summaries ==
    /\ op = "idle"
    /\ \E post_paths \in PostPaths, kwargs \in Kwargs,
          r \in Replies({Body("SummariesResponse"), Body("other")}) :
        Invoke("get_post_summaries",
               [post_paths |-> post_paths, kwargs |-> kwargs],
               "POST",
               [url |-> COMMENTS_URL \o <<"/summaries/batch">>,
                headers |-> PStr(COMMENTS_URL),
                json |-> [rootPaths |-> post_paths]],
               kwargs, r,
               Checked(r, Attribute(parse_raw("SummariesResponse", r.text),
                                    "summaries")))

ChannelUrl(club_id) == CHATFEED_URL \o <<"/channel/Club/">> \o club_id

get_club_message_history ==
    /\ op = "idle"
    /\ \E club_id \in ClubIds, message_id \in MessageIds,
          max_items \in {PInt(100), PInt(5)}, kwargs \in Kwargs,
          r \in Replies({Body("MessagesResponse"), Body("other")}) :
        Invoke("get_club_message_history",
               [club_id |-> club_id, message_id |-> message_id,
                max_items |-> max_items, kwargs |-> kwargs],
               "GET",
               [url |-> ChannelUrl(club_id) \o <<"/messages/history">>,
                headers |-> HEADERS_CHATFEED,
                params |-> [messageId |-> message_id,
                            maxItems |-> PyStr(max_items)]],
               kwargs, r,
               Checked(r, Attribute(parse_raw("MessagesResponse", r.text),
                                    "messages")))

delete_club_message ==
    /\ op = "idle"
    /\ \E club_id \in ClubIds, message_id \in MessageIds, kwargs \in Kwargs,
          r \in Replies({Body("empty")}) :
        Invoke("delete_club_message",
               [club_id |-> club_id, message_id |-> message_id,
                kwargs |-> kwargs],
               "DELETE",
               [url |-> ChannelUrl(club_id) \o <<"/messages/">> \o message_id,
                headers |-> HEADERS_CHATFEED],
               kwargs, r,
               Checked(r, Return(None_)))

get_club_motd ==
    /\ op = "idle"
    /\ \E club_id \in ClubIds, kwargs \in Kwargs,
          r \in Replies({Body("MessageResponse"), Body("other")}) :
        Invoke("get_club_motd", [club_id |-> club_id, kwargs |-> kwargs],
               "GET",
               [url |-> ChannelUrl(club_id) \o <<"/motd">>,
                headers |-> HEADERS_CHATFEED],
               kwargs, r,
               Checked(r, Attribute(parse_raw("MessageResponse", r.text),
                                    "message")))

set_club_motd ==
    /\ op = "idle"
    /\ \E club_id \in ClubIds, motd \in Texts, kwargs \in Kwargs,
          r \in Replies({Body("empty")}) :
        Invoke("set_club_motd",
               [club_id |-> club_id, motd |-> motd, kwargs |-> kwargs],
               "PUT",
               [url |-> ChannelUrl(club_id) \o <<"/motd">>,
                headers |-> HEADERS_CHATFEED,
                json |-> [newMotd |-> motd]],
               kwargs, r,
               Checked(r, Return(None_)))

ReportedItemsUrl(club_id) ==
    CLUBMODERATION_URL \o <<"/clubs/">> \o club_id \o <<"/reportedItems">>

get_club_reported_items ==
    /\ op = "idle"
    /\ \E club_id \in ClubIds, kwargs \in Kwargs,
          r \in Replies({Body("ReportedItemsResponse"), Body("other")}) :
        Invoke("get_club_reported_items",
               [club_id |-> club_id, kwargs |-> kwargs],
               "GET",
               [url |-> ReportedItemsUrl(club_id),
                headers |-> HEADERS_CLUBMODERATION],
               kwargs, r,
               Checked(r, Attribute(
                              parse_raw("ReportedItemsResponse", r.text),
                              "reportedItems")))

\* json.loads(resp.text)["reportId"]
report_id(text) ==
    IF text.shape = "report" THEN Return(PStr(<<"report1">>))
    ELSE IF text.shape = "object" THEN Raise("KeyError")
    ELSE Raise("JSONDecodeError")

ContentTypes == {<<"Unknown">>, <<"System">>, <<"Chat">>, <<"Game">>}

send_club_report ==
    /\ op = "idle"
    /\ \E club_id \in ClubIds, content_id \in MessageIds,
          content_type \in ContentTypes, target_xuid \in Xuids,
          reason \in Texts, kwargs \in Kwargs,
          r \in Replies({Body("report"), Body("object"), Body("other")}) :
        Invoke("send_club_report",
               [club_id |-> club_id, content_id |-> content_id,
                content_type |-> content_type, target_xuid |-> target_xuid,
                reason |-> reason, kwargs |-> kwargs],
               "POST",
               [url |-> ReportedItemsUrl(club_id),
                headers |-> HEADERS_CLUBMODERATION,
                json |-> [contentId |-> content_id,
                          contentType |-> content_type,
                          targetXuid |-> target_xuid,
                          textReason |-> reason]],
               kwargs, r,
               Checked(r, report_id(r.text)))

(***************************************************************************)
(* Operations in flight at once on one event loop: a coroutine runs from   *)
(* its call to its await of the session, and from the reply to its return, *)
(* without interruption; other coroutines run in between.                  *)
(***************************************************************************)
NumTasks == 2

Tasks == 1..NumTasks

IdleFrame == [pc |-> "idle"]

\* The inputs and replies of the operations in flight: one club, at most one
\* setting, and a reply that is a success, a client error or a failure.
InflightClubIds == {<<"club1">>}

InflightSettings == {items \in SettingItems : Len(items) <= 1}

InflightReplies(bodies) ==
    {r \in Replies(bodies) :
        r.t = "response" =>
            r.status \in {200, 404} /\ r.attrs = {"status_code", "text"}}

\* The frame of a coroutine after the part that runs up to the session call.
Started(name, a, call) ==
    IF call.kind = "raise"
    THEN [pc |-> "done", op |-> name, args |-> a, sent |-> <<>>,
          resp |-> NoResp, result |-> Raise(call.exc)]
    ELSE IF Collides(call.kw, call.kwargs)
    THEN [pc |-> "done", op |-> name, args |-> a, sent |-> <<>>,
          resp |-> NoResp, result |-> Raise("TypeError")]
    ELSE [pc |-> "awaiting", op |-> name, args |-> a,
          sent |-> <<Request(call.verb, call.kw, call.kwargs)>>]

TablesAfter(call) == IF call.kind = "raise" THEN tables ELSE call.tables

Begin(task, name, a, call) ==
    /\ inflight[task].pc = "idle"
    /\ inflight' = [inflight EXCEPT ![task] = Started(name, a, call)]
    /\ tables' = TablesAfter(call)
    /\ UNCHANGED <<op, args, sent, resp, result>>

begin_get_club_summary(task) ==
    \E club_id \in InflightClubIds, kwargs \in Kwargs :
        Begin(task, "get_club_summary",
              [club_id |-> club_id, kwargs |-> kwargs],
              get_club_summary_call(tables, club_id, kwargs))

begin_get_clubs_owned(task) ==
    \E kwargs \in Kwargs :
        Begin(task, "get_clubs_owned", [kwargs |-> kwargs],
              get_clubs_owned_call(tables, kwargs))

begin_update_club_profile(task) ==
    \E club_id \in InflightClubIds, setting_values \in InflightSettings :
        Begin(task, "update_club_profile",
              [club_id |-> club_id, setting_values |-> setting_values],
              update_club_profile_call(tables, club_id, setting_values))

\* What each operation does with a response.
Rest(name, r) ==
    CASE name = "get_club_summary" -> get_club_summary_rest(r)
      [] name = "get_clubs_owned" -> get_clubs_owned_rest(r)
      [] name = "update_club_profile" -> update_club_profile_rest(r)

\* The replies the session gives to an operation in flight.
RepliesTo(name) ==
    CASE name = "get_club_summary" ->
             InflightReplies({Body("ClubSummary"), Body("other")})
      [] name = "get_clubs_owned" ->
             InflightReplies({Body("OwnedClubsResponse"), Body("other")})
      [] name = "update_club_profile" -> InflightReplies({Body("empty")})

Finished(frame, r) ==
    [pc |-> "done", op |-> frame.op, args |-> frame.args,
     sent |-> frame.sent, resp |-> r,
     result |-> IF r.t = "failure" THEN Raise(r.exc)
                ELSE Rest(frame.op, r)]

\* The awaited session call completes and the coroutine runs to its end.
resume(task) ==
    /\ inflight[task].pc = "awaiting"
    /\ \E r \in RepliesTo(inflight[task].op) :
        inflight' = [inflight EXCEPT ![task] = Finished(inflight[task], r)]
    /\ UNCHANGED <<op, args, sent, resp, result, tables>>

\* The caller takes the outcome.
finish(task) ==
    /\ inflight[task].pc = "done"
    /\ inflight' = [inflight EXCEPT ![task] = IdleFrame]
    /\ UNCHANGED <<op, args, sent, resp, result, tables>>

(***************************************************************************)
(* The state machine.                                                      *)
(***************************************************************************)
Init ==
    /\ op = "idle"
    /\ args = EmptyDict
    /\ sent = <<>>
    /\ resp = NoResp
    /\ result = NoResult
    /\ tables = ClassTables
    /\ inflight = [t \in Tasks |-> IdleFrame]

\* The outcome is handed to the caller; the provider keeps nothing of the
\* invocation and is ready for the next one.
ReturnToCaller ==
    /\ op # "idle"
    /\ op' = "idle"
    /\ args' = EmptyDict
    /\ sent' = <<>>
    /\ resp' = NoResp
    /\ result' = NoResult
    /\ UNCHANGED <<tables, inflight>>

Next ==
    \/ call_feed_start_date_time
    \/ get_club_summary
    \/ get_clubs_owned
    \/ claim_club_name
    \/ transfer_club_ownership
    \/ rename_club
    \/ delete_club
    \/ unsuspend_club
    \/ call_create_clubhub_id_endpoint
    \/ get_clubs
    \/ get_club
    \/ get_club_associations
    \/ get_club_recommendations
    \/ search_clubs
    \/ call_create_search_params
    \/ get_presence_counts
    \/ set_presence_within_club
    \/ update_club_profile
    \/ create_club
    \/ suspend_club
    \/ add_user_to_club
    \/ remove_user_from_club
    \/ follow_club
    \/ unfollow_club
    \/ ban_user_from_club
    \/ unban_user_from_club
    \/ add_club_moderator
    \/ remove_club_moderator
    \/ get_user_activity_history
    \/ get_club_activity_feed
    \/ get_title_activity_feed
    \/ get_xbox_activity_feed
    \/ get_user_pins
    \/ delete_feed_item
    \/ post_text
    \/ share_item
    \/ get_post_summaries
    \/ get_club_message_history
    \/ delete_club_message
    \/ get_club_motd
    \/ set_club_motd
    \/ get_club_reported_items
    \/ send_club_report
    \/ ReturnToCaller

Spec == Init /\ [][Next]_vars

ConcurrentNext ==
    \E task \in Tasks :
        \/ begin_get_club_summary(task)
        \/ begin_get_clubs_owned(task)
        \/ begin_update_club_profile(task)
        \/ resume(task)
        \/ finish(task)

ConcurrentSpec == Init /\ [][ConcurrentNext]_vars

(***************************************************************************)
(* Properties.                                                             *)
(***************************************************************************)
\* The pieces of s between the occurrences of the token sep.
RECURSIVE SplitAt(_, _)
SplitAt(s, sep) ==
    IF \A i \in 1..Len(s) : s[i] # sep THEN <<s>>
    ELSE LET i == CHOOSE i \in 1..Len(s) :
                      s[i] = sep /\ \A j \in 1..(i - 1) : s[j] # sep
         IN <<SubSeq(s, 1, i - 1)>> \o SplitAt(SubSeq(s, i + 1, Len(s)), sep)

\* The first place of the token c in s (0 when s lacks it).
IndexOf(s, c) ==
    IF \E i \in 1..Len(s) : s[i] = c
    THEN CHOOSE i \in 1..Len(s) : s[i] = c /\ \A j \in 1..(i - 1) : s[j] # c
    ELSE 0

GotResponse == resp.t = "response"

\* C1: a non-2xx response makes every provider operation fail with an error
\* that carries the response's status code and body.
C1_NonSuccessFails ==
    (GotResponse /\ resp.status \notin 200..299)
        => /\ result.kind = "raise"
           /\ result.exc = "HTTPStatusError"
           /\ result.status = resp.status
           /\ result.text = resp.text

\* The outcome of parsing the response body as `model`.
ParsedAs(model) ==
    IF resp.text.shape = model
    THEN /\ result.kind = "return"
         /\ result.val.model = model
         /\ result.val.body = resp.text
    ELSE result = Raise("ValidationError")

\* C2: delete_club yields a ClubReservation parsed from the body for status
\* 200, a ClubSummary parsed from the body for status 202, no result object
\* for every other 2xx status, and fails for a non-2xx status.
C2_DeleteClubOutcomes ==
    (op = "delete_club" /\ GotResponse) =>
        /\ resp.status \notin 200..299 =>
               result.kind = "raise" /\ result.exc = "HTTPStatusError"
        /\ resp.status = 200 => ParsedAs("ClubReservation")
        /\ resp.status = 202 => ParsedAs("ClubSummary")
        /\ (resp.status \in 200..299 /\ resp.status \notin {200, 202}) =>
               result = Return(None_)

C2_Witness ==
    /\ op = "delete_club"
    /\ GotResponse
    /\ resp.status = 202
    /\ result.kind = "return"
    /\ result.val.model = "ClubSummary"

\* Months since year 0 of a date.
MonthIndex(d) == d.year * 12 + (d.month - 1)

\* C3: the date helper returns a date exactly months_ago calendar months
\* before the reference month.
C3_ExactMonthsAgo ==
    (op = "_feed_start_date_time" /\ result.kind = "return")
        => MonthIndex(result.val) = MonthIndex(args.now) - args.months_ago

\* C4: the date helper never fails and returns day 1 of the resulting month
\* when end_of_month is false, its last calendar day when end_of_month is
\* true.
C4_FirstOrLastDay ==
    op = "_feed_start_date_time"
        => /\ result.kind = "return"
           /\ result.val.day =
                  IF args.end_of_month
                  THEN DaysInMonth(result.val.year, result.val.month)
                  ELSE 1

ActivityOps ==
    {"get_user_activity_history", "get_club_activity_feed",
     "get_title_activity_feed", "get_xbox_activity_feed"}

\* The include_self flag in force: the caller's, or the family default.
IncludeSelfFlag ==
    IF op = "get_xbox_activity_feed"
           /\ args.activity_params.include_self.t = "none"
    THEN PBool(TRUE)
    ELSE args.activity_params.include_self

\* C5: an activity-feed request carries includeSelf exactly when the
\* include_self flag is set, and its value is the lower-case text of that
\* flag.
C5_IncludeSelfIsFlag ==
    (op \in ActivityOps /\ sent # <<>>) =>
        LET p == sent[1].kw.params
        IN /\ ("includeSelf" \in DOMAIN p) <=> (IncludeSelfFlag.t # "none")
           /\ IncludeSelfFlag.t # "none" =>
                  p.includeSelf = IF IncludeSelfFlag.b THEN <<"true">>
                                  ELSE <<"false">>

\* The ids and decorations given to _create_clubhub_id_endpoint, as lists.
GivenIds(ids) == IF ids.t = "str" THEN <<ids.s>> ELSE ids.l
GivenDecorations(d) == IF d.t = "none" THEN <<>> ELSE d.l

\* url is the club hub URL, one segment /clubs/Ids(...) or /clubs/Xuid(...)
\* holding the ids in order, and the decoration suffix exactly when there
\* are decorations.
EndpointShape(url, ids, is_xuid, decorations) ==
    LET open == IndexOf(url, "(")
        close == IndexOf(url, ")")
    IN /\ open > 0
       /\ close > open
       /\ SubSeq(url, 1, open) =
              CLUBHUB_URL
                  \o <<"/clubs/", IF is_xuid THEN "Xuid" ELSE "Ids", "(">>
       /\ SplitAt(SubSeq(url, open + 1, close - 1), ",") = ids
       /\ IF decorations = <<>> THEN close = Len(url)
          ELSE /\ Len(url) > close + 1
               /\ url[close + 1] = "/decoration/"
               /\ SplitAt(SubSeq(url, close + 2, Len(url)), ",") = decorations

\* C6: for 1 to 10 ids the endpoint is the club hub URL followed by the one
\* segment /clubs/Ids(<ids joined by ','>) (Xuid(...) when is_xuid), ids in
\* input order, a string id counting as a one-element list, and
\* /decoration/<decorations joined by ','> is appended exactly when the
\* decoration list is non-empty.
C6_EndpointShape ==
    (op = "_create_clubhub_id_endpoint"
         /\ Len(GivenIds(args.ids)) \in 1..MaxEndpointIds) =>
        /\ result.kind = "return"
        /\ EndpointShape(result.val, GivenIds(args.ids), args.is_xuid,
                         GivenDecorations(args.decorations))

C6_Witness ==
    /\ op = "_create_clubhub_id_endpoint"
    /\ args.ids.t = "list"
    /\ Len(args.ids.l) = MaxEndpointIds
    /\ args.decorations.t = "list"
    /\ Len(args.decorations.l) = 2
    /\ result.kind = "return"

\* C7: a club-id list of more than 10 entries makes get_clubs, and the
\* endpoint builder under it, fail with a validation error, and no session
\* call is issued.
C7_TooManyIdsRejected ==
    /\ (op = "get_clubs" /\ Len(GivenIds(args.club_ids)) > MaxEndpointIds) =>
           result = Raise("ValueError") /\ sent = <<>>
    /\ (op = "_create_clubhub_id_endpoint"
            /\ Len(GivenIds(args.ids)) > MaxEndpointIds) =>
           result = Raise("ValueError") /\ sent = <<>>

C7_Witness ==
    /\ op = "get_clubs"
    /\ args.club_ids.t = "list"
    /\ Len(args.club_ids.l) = MaxEndpointIds + 1
    /\ result = Raise("ValueError")
    /\ sent = <<>>

\* C8: search_clubs with an empty query fails with a validation error before
\* any session call; with a non-empty query the request it issues carries q
\* equal to the query.
C8_SearchQuery ==
    op = "search_clubs" =>
        IF args.query.s = <<>>
        THEN result = Raise("ValueError") /\ sent = <<>>
        ELSE /\ "params" \notin DOMAIN args.kwargs => Len(sent) = 1
             /\ sent # <<>> =>
                    /\ "q" \in DOMAIN sent[1].kw.params
                    /\ sent[1].kw.params.q = args.query.s

C8_Witness ==
    /\ op = "search_clubs"
    /\ args.query.s = <<>>
    /\ args.titles.t = "list"
    /\ result = Raise("ValueError")
    /\ sent = <<>>

\* C9: the search parameters never hold a filter with an empty or null
\* value; an absent filter, a sequence filter without elements included, is
\* no key of the parameters.
C9_NoEmptyFilter ==
    /\ (op = "search_clubs" /\ sent # <<>>) =>
           \A k \in DOMAIN sent[1].kw.params \ {"q"} :
               sent[1].kw.params[k] # <<>>
    /\ (op = "_create_search_params" /\ result.kind = "return") =>
           \A k \in DOMAIN result.val \ {"q"} : result.val[k] # <<>>

\* C10: in _create_search_params a sequence filter becomes its elements
\* joined by commas in input order, every other filter that is not None
\* becomes its string form, and q stays the query.
C10_FilterValues ==
    (op = "_create_search_params" /\ result.kind = "return") =>
        /\ \A i \in 1..Len(args.items) :
               LET k == args.items[i][1]
                   v == args.items[i][2]
               IN /\ v.t = "list" =>
                         /\ k \in DOMAIN result.val
                         /\ result.val[k] = Join(<<",">>, v.l)
                  /\ v.t \notin {"list", "none"} =>
                         /\ k \in DOMAIN result.val
                         /\ result.val[k] = PyStr(v)
        /\ result.val.q = args.query.s

\* The keyword pairs the caller of update_club_profile gave, and the keys
\* among them that are fields of the contract.
GivenSettings == args.setting_values

GivenKeys == {GivenSettings[i].key : i \in 1..Len(GivenSettings)}

ProfilePayload == sent[1].kw.json

Listed(names) == {names[i] : i \in 1..Len(names)}

\* C11: update_club_profile puts every key the caller supplies in exactly one
\* bucket: a key that is a field of ClubSettingsContract goes into the patch
\* (requestContract / modifiedFields) and is never a transport option; any
\* other key is passed on as a transport option of the request, is never
\* rejected and never appears in requestContract or modifiedFields.
C11_KeysPartitioned ==
    op = "update_club_profile" =>
        /\ Len(sent) = 1
        /\ \A k \in GivenKeys \cap ContractFields :
               /\ to_pascal(k) \in Listed(ProfilePayload.modifiedFields)
               /\ k \notin DOMAIN sent[1].kw
        /\ \A k \in GivenKeys \ ContractFields :
               /\ k \in DOMAIN sent[1].kw
               /\ sent[1].kw[k] \in SettingValues
               /\ k \notin DOMAIN ProfilePayload.requestContract
               /\ to_pascal(k) \notin Listed(ProfilePayload.modifiedFields)

\* C12: the requestContract that update_club_profile sends holds only the
\* contract fields the caller supplied; no other field appears in it, not
\* even with a null value.
C12_OnlySuppliedFields ==
    op = "update_club_profile" =>
        /\ Len(sent) = 1
        /\ DOMAIN ProfilePayload.requestContract
               \subseteq GivenKeys \cap ContractFields

\* C13: modifiedFields names exactly the fields set in requestContract: a
\* field is listed if and only if the payload carries a value for it, also
\* for settings supplied as None, and each name appears once, in its
\* case-converted form.
C13_ModifiedFieldsMatchPayload ==
    op = "update_club_profile" =>
        /\ Len(sent) = 1
        /\ LET rc == ProfilePayload.requestContract
               mf == ProfilePayload.modifiedFields
           IN /\ \A f \in ContractFields :
                     to_pascal(f) \in Listed(mf)
                         <=> (f \in DOMAIN rc /\ rc[f] # None_)
              /\ Listed(mf) \subseteq {to_pascal(f) : f \in ContractFields}
              /\ \A i, j \in 1..Len(mf) : mf[i] = mf[j] => i = j

\* C14: every field of ClubSettingsContract is optional, so
\* update_club_profile builds its patch for any set of supplied settings,
\* the empty one included, without a validation failure.
C14_NoValidationFailure ==
    op = "update_club_profile" =>
        ~(result.kind = "raise" /\ result.exc = "ValidationError")

\* The contract version of the service family an operation targets.
FamilyVersion(name) ==
    CASE name \in {"get_club_summary", "claim_club_name",
                   "transfer_club_ownership", "rename_club", "delete_club",
                   "unsuspend_club"} -> "1"
      [] name = "get_clubs_owned" -> "2"
      [] name \in {"get_clubs", "get_club", "get_club_associations",
                   "get_club_recommendations", "search_clubs"} -> "5"
      [] name \in {"create_club", "suspend_club"} -> "1"
      [] name \in {"get_presence_counts", "set_presence_within_club"} -> "1"
      [] name = "update_club_profile" -> "2"
      [] name \in {"add_user_to_club", "remove_user_from_club",
                   "follow_club", "unfollow_club", "ban_user_from_club",
                   "unban_user_from_club", "add_club_moderator",
                   "remove_club_moderator"} -> "4"
      [] name \in ActivityOps \cup {"get_user_pins"} -> "12"
      [] name \in {"post_text", "share_item", "delete_feed_item"} -> "2"
      [] name = "get_post_summaries" -> "3"
      [] name \in {"get_club_message_history", "delete_club_message",
                   "get_club_motd", "set_club_motd"} -> "1"
      [] name \in {"get_club_reported_items", "send_club_report"} -> "1"
      [] OTHER -> "none"

CarriesVersion(request, version) ==
    /\ "x-xbl-contract-version" \in DOMAIN request.kw.headers
    /\ request.kw.headers["x-xbl-contract-version"] = version

\* C15: every request an operation hands to the session carries an
\* x-xbl-contract-version header whose value is the version of the service
\* family the operation targets (club accounts 1, owned clubs 2, club hub 5,
\* club presence 1, club profile 2, club roster 4, activity 12, user posts 2,
\* comments 3, chat feed 1, club moderation 1).
C15_ContractVersion ==
    \A i \in 1..Len(sent) : CarriesVersion(sent[i], FamilyVersion(op))

\* The same for every operation but get_post_summaries.
C15_ExceptPostSummaries ==
    op # "get_post_summaries" => C15_ContractVersion

\* The operations that return a parsed ActivityResponse.
ActivityResponseOps == ActivityOps \cup {"get_user_pins"}

\* The class of item an activityItemType names; a type that names no
\* specific class names the generic ActivityItem.
NamedClass(tag) ==
    CASE tag \in {"Achievement", "LegacyAchievement"} ->
             "AchievementActivityItem"
      [] tag = "Screenshot" -> "ScreenshotActivityItem"
      [] tag = "GameDVR" -> "ClipActivityItem"
      [] tag \in {"UserPost", "TextPost"} -> "UserPostActivityItem"
      [] tag = "Container" -> "ContainerActivityItem"
      [] OTHER -> "ActivityItem"

ParsedActivity ==
    /\ op \in ActivityResponseOps
    /\ result.kind = "return"

\* C16: each item of a deserialized activity response is of the class its
\* activityItemType names, whatever other fields the item carries: the class
\* is a function of the tag alone.
C16_ClassFollowsTag ==
    ParsedActivity =>
        \A i \in 1..Len(result.val.activity_items) :
            result.val.activity_items[i].class
                = NamedClass(resp.text.activity_items[i].activity_item_type)

\* C17: a response with an item whose activityItemType names a specific
\* class, but which lacks a field that class requires, fails to deserialize;
\* the item is never accepted as a less specific item.
C17_IncompleteItemFails ==
    (/\ op \in ActivityResponseOps
     /\ GotResponse
     /\ ~RaisesForStatus(resp)
     /\ resp.text.shape = "ActivityResponse"
     /\ \E i \in 1..Len(resp.text.activity_items) :
            LET item == resp.text.activity_items[i]
                class == NamedClass(item.activity_item_type)
            IN /\ class # "ActivityItem"
               /\ ~(RequiredFields(class) \subseteq item.has))
        => result.kind = "raise"

\* What the caller of an activity feed gave.
GivenParams == args.activity_params

NoTypesGiven ==
    /\ GivenParams.activity_types = None_
    /\ GivenParams.exclude_types = None_

\* The query parameters an operation puts on its request itself.
OwnParams(request) ==
    IF op = "get_user_pins" THEN EmptyDict ELSE request.kw.params

UserHistoryDefaulted ==
    /\ op = "get_user_activity_history"
    /\ NoTypesGiven
    /\ Len(sent) = 1

\* C18 (as stated): get_user_activity_history called with neither
\* activity_types nor exclude_types sends activityTypes made of GameDVR,
\* Achievement and Screenshot, in some order, and no excludeTypes.
C18_DefaultTypesAsStated ==
    UserHistoryDefaulted =>
        /\ "activityTypes" \in DOMAIN sent[1].kw.params
        /\ LET types == SplitAt(sent[1].kw.params["activityTypes"], ";")
           IN /\ Len(types) = 3
              /\ Listed(types)
                     = {<<"GameDVR">>, <<"Achievement">>, <<"Screenshot">>}
        /\ "excludeTypes" \notin DOMAIN sent[1].kw.params

\* C18: get_user_activity_history called with neither activity_types nor
\* exclude_types sends activityTypes = GameDVR;LegacyAchievement;Screenshot,
\* in that order, and no excludeTypes.
C18_UserHistoryDefaultTypes ==
    UserHistoryDefaulted =>
        /\ "activityTypes" \in DOMAIN sent[1].kw.params
        /\ sent[1].kw.params["activityTypes"]
               = <<"GameDVR", ";", "LegacyAchievement", ";", "Screenshot">>
        /\ "excludeTypes" \notin DOMAIN sent[1].kw.params

C18_Witness ==
    /\ UserHistoryDefaulted
    /\ "activityTypes" \in DOMAIN sent[1].kw.params

\* C19: every activity-feed request carries at most one of activityTypes and
\* excludeTypes, for every combination of lists the caller supplies.
C19_OneTypeFilter ==
    op \in ActivityOps =>
        \A i \in 1..Len(sent) :
            ~(/\ "activityTypes" \in DOMAIN sent[i].kw.params
              /\ "excludeTypes" \in DOMAIN sent[i].kw.params)

\* The families that apply a default item count, and the count of each.
DefaultCount ==
    [get_user_activity_history |-> 20, get_club_activity_feed |-> 50,
     get_xbox_activity_feed |-> 50]

CarriesCount(request, n) ==
    /\ "numItems" \in DOMAIN OwnParams(request)
    /\ OwnParams(request)["numItems"] = PyStr(n)

EffectiveParams ==
    CASE op = "get_user_activity_history" -> user_history_params(GivenParams)
      [] op = "get_club_activity_feed" -> club_feed_params(GivenParams)
      [] op = "get_xbox_activity_feed" -> xbox_feed_params(GivenParams)
      [] op = "get_title_activity_feed" ->
             LET typed == title_feed_types(GivenParams)
             IN IF typed.start_date_time.t # "none" THEN typed
                ELSE [typed EXCEPT !.start_date_time =
                         PDateTime(_feed_start_date_time(3, TRUE,
                                                         args.now).val)]

TwoDigits(n) == <<DigitChar(n \div 10), DigitChar(n % 10)>>

FourDigits(n) == TwoDigits(n \div 100) \o TwoDigits(n % 100)

\* MM/DD/YYYY+HH:MM:SS with /, + and : percent-encoded.
EncodedTimestamp(d) ==
    TwoDigits(d.month) \o <<"%2F">> \o TwoDigits(d.day) \o <<"%2F">>
        \o FourDigits(d.year) \o <<"%2B">> \o TwoDigits(d.hour)
        \o <<"%3A">> \o TwoDigits(d.minute) \o <<"%3A">>
        \o TwoDigits(d.second)

\* The parameter named key is the list joined with semicolons, and is absent
\* for an absent or empty list.
ListParameter(p, key, list) ==
    IF list.t = "none" \/ list.l = <<>>
    THEN key \notin DOMAIN p
    ELSE /\ key \in DOMAIN p
         /\ SplitAt(p[key], ";") = list.l

\* C21: in every activity-feed request activityTypes (excludeTypes) is the
\* type list handed to the request builder joined with semicolons in input
\* order, and startDateTime is the timestamp formatted MM/DD/YYYY+HH:MM:SS
\* and percent-encoded; each of the three is absent when its input is absent
\* or empty.
C21_ListsAndTimestamp ==
    (op \in ActivityOps /\ Len(sent) = 1) =>
        LET p == sent[1].kw.params
            e == EffectiveParams
        IN /\ ListParameter(p, "activityTypes", e.activity_types)
           /\ ListParameter(p, "excludeTypes", e.exclude_types)
           /\ IF e.start_date_time.t = "none"
              THEN "startDateTime" \notin DOMAIN p
              ELSE /\ "startDateTime" \in DOMAIN p
                   /\ p["startDateTime"]
                          = EncodedTimestamp(e.start_date_time.d)

C21_Witness ==
    /\ op = "get_club_activity_feed"
    /\ Len(sent) = 1
    /\ GivenParams.activity_types.t = "list"
    /\ GivenParams.activity_types.l # <<>>
    /\ GivenParams.start_date_time.t = "datetime"
    /\ Len(SplitAt(sent[1].kw.params["activityTypes"], ";")) = 2
    /\ "startDateTime" \in DOMAIN sent[1].kw.params

\* The helpers of the providers, called on their own in the model.
HelperOps ==
    {"_create_clubhub_id_endpoint", "_create_search_params",
     "_feed_start_date_time"}

\* An invocation of a public operation of a provider.
PublicOperation == op \notin HelperOps \cup {"idle"}

\* The operations that pass params, and those that pass json, themselves.
PassesParams ==
    ActivityOps \cup {"search_clubs", "get_club_message_history"}

PassesJson ==
    {"claim_club_name", "create_club", "transfer_club_ownership",
     "rename_club", "suspend_club", "set_presence_within_club",
     "update_club_profile", "follow_club", "unfollow_club",
     "ban_user_from_club", "unban_user_from_club", "add_club_moderator",
     "remove_club_moderator", "post_text", "share_item",
     "get_post_summaries", "set_club_motd", "send_club_report"}

\* The keywords the caller hands through to the session call.
TransportKeys ==
    IF op = "update_club_profile" THEN GivenKeys \ ContractFields
    ELSE DOMAIN args.kwargs

\* The invocation passes the local checks: no more than 10 club ids, a
\* non-empty search query, and no keyword of the caller that repeats one the
\* operation passes itself.
LocallyValid ==
    /\ op = "get_clubs" => Len(GivenIds(args.club_ids)) <= MaxEndpointIds
    /\ op = "search_clubs" => args.query.s # <<>>
    /\ "headers" \notin TransportKeys
    /\ op \in PassesParams => "params" \notin TransportKeys
    /\ op \in PassesJson => "json" \notin TransportKeys

\* C22: every invocation of a public operation of the club provider or the
\* feed provider that passes local validation issues exactly one session
\* call, whatever the response: get_club and the roster operations are one
\* call, and no response leads to a follow-up request.
C22_ExactlyOneCall ==
    (PublicOperation /\ LocallyValid) => Len(sent) = 1

\* The same for every operation but update_club_profile.
C22_ExceptProfileUpdate ==
    op # "update_club_profile" => C22_ExactlyOneCall

\* The session call failed: in transport, or with a status outside 2xx.
CallFailed ==
    /\ Len(sent) >= 1
    /\ resp.t = "failure" \/ (resp.t = "response" /\ RaisesForStatus(resp))

\* C23: when the session call of an operation fails (transport failure,
\* timeout, cancellation or a status outside 2xx) the operation ends with
\* that same error: it issues no further call, does not turn the error into
\* a normal return value and does not replace it with another error.
C23_FailurePropagates ==
    (PublicOperation /\ CallFailed) =>
        /\ Len(sent) = 1
        /\ result = IF resp.t = "failure" THEN Raise(resp.exc)
                    ELSE RaiseHTTP(resp)

\* The same for every operation but set_presence_within_club.
C23_ExceptSetPresence ==
    op # "set_presence_within_club" => C23_FailurePropagates

(***************************************************************************)
(* Class-level header tables and operations in flight at once.             *)
(***************************************************************************)
ClubAccountsOps ==
    {"get_club_summary", "claim_club_name", "create_club",
     "transfer_club_ownership", "rename_club", "delete_club", "suspend_club",
     "unsuspend_club"}

\* C27: the class-level header tables are the same after any sequence of
\* operations as after class creation; get_clubs_owned sends contract
\* version 2 and every other club-accounts operation still sends version 1.
C27_HeaderTablesUnchanged ==
    /\ tables = ClassTables
    /\ (op = "get_clubs_owned" /\ Len(sent) = 1
            => CarriesVersion(sent[1], "2"))
    /\ (op \in ClubAccountsOps /\ Len(sent) = 1
            => CarriesVersion(sent[1], "1"))

C27_Witness ==
    /\ op = "get_clubs_owned"
    /\ Len(sent) = 1
    /\ CarriesVersion(sent[1], "2")
    /\ tables.HEADERS_CLUBACCOUNTS["x-xbl-contract-version"] = "1"

\* The call an operation makes when nothing else has run since the classes
\* were created.
AloneCall(name, a) ==
    CASE name = "get_club_summary" ->
             get_club_summary_call(ClassTables, a.club_id, a.kwargs)
      [] name = "get_clubs_owned" ->
             get_clubs_owned_call(ClassTables, a.kwargs)
      [] name = "update_club_profile" ->
             update_club_profile_call(ClassTables, a.club_id,
                                      a.setting_values)

AsAlone(frame) ==
    LET alone == Started(frame.op, frame.args,
                         AloneCall(frame.op, frame.args))
    IN /\ frame.sent = alone.sent
       /\ frame.pc = "done" =>
              frame.result = IF alone.pc = "done" THEN alone.result
                             ELSE Finished(alone, frame.resp).result

\* C24: whatever the interleaving of the operations in flight, each one
\* sends the request and returns the result it sends and returns when it
\* runs alone.
C24_ConcurrentOperationsIndependent ==
    \A task \in Tasks : inflight[task].pc # "idle" => AsAlone(inflight[task])

C24_Witness ==
    /\ inflight[1].pc = "awaiting"
    /\ inflight[1].op = "get_clubs_owned"
    /\ inflight[2].pc = "done"
    /\ inflight[2].op = "get_club_summary"
    /\ inflight[2].result.kind = "return"

(***************************************************************************)
(* Club creation.                                                          *)
(***************************************************************************)
CreationPayload == sent[1].kw.json

\* C25: whenever create_club is called with genre "title", the creation
\* request it hands to the session carries a titleFamilyId.
C25_TitleGenreCarriesFamilyId ==
    (op = "create_club" /\ args.genre = <<"title">> /\ Len(sent) = 1)
        => "titleFamilyId" \in DOMAIN CreationPayload

\* What create_club does instead: the request carries a titleFamilyId
\* exactly when the caller gave a title family id other than the null UUID,
\* whatever the genre.
C25_FamilyIdFollowsArgument ==
    (op = "create_club" /\ Len(sent) = 1)
        => ("titleFamilyId" \in DOMAIN CreationPayload
                <=> args.title_family_id.int # 0)

(***************************************************************************)
(* Deserialized clubs.                                                     *)
(***************************************************************************)
ClubListOps ==
    {"get_clubs", "get_club_associations", "get_club_recommendations"}

\* The Club objects the latest invocation returned.
ReturnedClubs ==
    IF result.kind # "return" THEN {}
    ELSE IF op = "get_club" THEN {result.val}
    ELSE IF op \in ClubListOps
    THEN {result.val[i] : i \in 1..Len(result.val)}
    ELSE {}

\* C26: every deserialized Club has a suspended-until value only when its
\* state is suspended; a response whose club has state normal and a
\* suspended-until value does not yield a Club.
C26_SuspendedUntilOnlyWhenSuspended ==
    \A club \in ReturnedClubs :
        club.suspended_until_utc # None_ => club.state = <<"suspended">>

\* What the Club class does guarantee: a deserialized club has a state.
C26_ClubHasState ==
    \A club \in ReturnedClubs : club.state \in {<<"normal">>, <<"suspended">>}

(***************************************************************************)
(* Default type filters of the activity feeds.                             *)
(***************************************************************************)
\* The default filter of each family: the parameter it goes to, and its text.
FamilyFilter ==
    [get_user_activity_history |->
         [key |-> "activityTypes",
          text |-> <<"GameDVR", ";", "LegacyAchievement", ";", "Screenshot">>],
     get_club_activity_feed |->
         [key |-> "excludeTypes",
          text |-> <<"BroadcastStart", ";", "BroadcastEnd">>],
     get_title_activity_feed |->
         [key |-> "excludeTypes",
          text |-> <<"Followed", ";", "GamertagChanged", ";", "Played">>],
     get_xbox_activity_feed |->
         [key |-> "excludeTypes",
          text |-> <<"Played", ";", "BroadcastStart", ";", "BroadcastEnd">>]]

TypeFilterKeys == {"activityTypes", "excludeTypes"}

GivenList(key) ==
    IF key = "activityTypes" THEN GivenParams.activity_types
    ELSE GivenParams.exclude_types

Supplied(key) == GivenList(key) # None_

\* The request carries the family's default filter and no other.
DefaultFilterApplied(request) ==
    LET filter == FamilyFilter[op]
    IN /\ filter.key \in DOMAIN request.kw.params
       /\ request.kw.params[filter.key] = filter.text
       /\ \A key \in TypeFilterKeys \ {filter.key} :
              key \notin DOMAIN request.kw.params

\* The request carries the caller's lists and nothing else as a filter.
OnlySuppliedFilters(request) ==
    \A key \in TypeFilterKeys :
        IF Supplied(key) /\ GivenList(key).l # <<>>
        THEN /\ key \in DOMAIN request.kw.params
             /\ SplitAt(request.kw.params[key], ";") = GivenList(key).l
        ELSE key \notin DOMAIN request.kw.params

\* C28: in each of the four activity feeds the family's default type filter
\* is on the request exactly when the caller supplied neither activity_types
\* nor exclude_types; when a list is supplied the request carries the
\* supplied lists only, and no default stands in for a list left out.
C28_DefaultFilterIffNoneSupplied ==
    (op \in ActivityOps /\ Len(sent) = 1) =>
        IF \A key \in TypeFilterKeys : ~Supplied(key)
        THEN DefaultFilterApplied(sent[1])
        ELSE OnlySuppliedFilters(sent[1]) /\ ~DefaultFilterApplied(sent[1])

C28_Witness ==
    /\ op = "get_user_activity_history"
    /\ Len(sent) = 1
    /\ ~Supplied("activityTypes")
    /\ Supplied("excludeTypes")
    /\ "activityTypes" \notin DOMAIN sent[1].kw.params
    /\ "excludeTypes" \in DOMAIN sent[1].kw.params

(***************************************************************************)
(* Roster operations: verbs, URLs and bodies.                              *)
(***************************************************************************)
AddRoleOps == {"follow_club", "ban_user_from_club", "add_club_moderator"}

RemoveRoleOps ==
    {"unfollow_club", "unban_user_from_club", "remove_club_moderator"}

RosterOps ==
    {"add_user_to_club", "remove_user_from_club"} \cup AddRoleOps
        \cup RemoveRoleOps

\* The wire name of the role each role operation adds or removes.
WireRole ==
    [follow_club |-> "Follower", unfollow_club |-> "Follower",
     ban_user_from_club |-> "Banned", unban_user_from_club |-> "Banned",
     add_club_moderator |-> "Moderator", remove_club_moderator |-> "Moderator"]

\* The user a roster operation is about: the given xuid, the caller's own
\* when none is given or the operation takes none.
TargetXuid ==
    IF "xuid" \in DOMAIN args /\ args.xuid \notin {None_, PStr(<<>>)}
    THEN args.xuid.s
    ELSE <<"xuid0">>

RosterUserUrl ==
    <<"https://clubroster.xboxlive.com", "/clubs/">> \o args.club_id
        \o <<"/users/xuid(">> \o TargetXuid \o <<")">>

MembershipMapping(request) ==
    /\ op = "add_user_to_club" =>
           request.verb = "PUT" /\ request.kw.url = RosterUserUrl
    /\ op = "remove_user_from_club" =>
           request.verb = "DELETE" /\ request.kw.url = RosterUserUrl

AddRoleMapping(request) ==
    op \in AddRoleOps =>
        /\ request.verb = "POST"
        /\ request.kw.url = RosterUserUrl \o <<"/roles">>
        /\ request.kw.json = [roles |-> <<WireRole[op]>>]

RemoveRoleMapping(request) ==
    op \in RemoveRoleOps =>
        /\ request.verb = "DELETE"
        /\ request.kw.url = RosterUserUrl \o <<"/roles", "/", WireRole[op]>>

\* C29: add_user_to_club is a PUT and remove_user_from_club a DELETE on
\* /clubs/<id>/users/xuid(<xuid>), the xuid being the caller's own by
\* default; adding a role is a POST on that user's /roles with body
\* roles = [role]; removing a role is a DELETE on /roles/<wire name of the
\* role removed>.
C29_RosterMapping ==
    (op \in RosterOps /\ Len(sent) = 1) =>
        /\ MembershipMapping(sent[1])
        /\ AddRoleMapping(sent[1])
        /\ RemoveRoleMapping(sent[1])

\* The part of the mapping that holds on every interpreter: everything but
\* the name at the end of a removal's URL, which is the wire name or the
\* member's qualified name.
C29_ExceptRemovedRoleName ==
    (op \in RosterOps /\ Len(sent) = 1) =>
        /\ MembershipMapping(sent[1])
        /\ AddRoleMapping(sent[1])
        /\ op \in RemoveRoleOps =>
               /\ sent[1].verb = "DELETE"
               /\ \/ RemoveRoleMapping(sent[1])
                  \/ /\ Len(sent[1].kw.url) = Len(RosterUserUrl) + 4
                     /\ SubSeq(sent[1].kw.url, 1, Len(RosterUserUrl) + 3)
                            = RosterUserUrl \o <<"/roles", "/", "ClubRole.">>

(***************************************************************************)
(* Id lists at the edges: the empty list and the empty response.           *)
(***************************************************************************)
\* A 2xx response whose body is a SearchClubsResponse listing no clubs.
NoClubsListed ==
    /\ Len(sent) = 1
    /\ resp.t = "response"
    /\ resp.status \in 200..299
    /\ resp.text = ClubsBody(<<>>)

\* C30: _create_clubhub_id_endpoint rejects an id list exactly when it has
\* more than 10 entries; the empty list is accepted and gives an endpoint
\* with the segment Ids(); get_club fails with an error, and does not return
\* an absent club, when the response lists no clubs.
C30_EmptyListAndEmptyResponse ==
    /\ op = "_create_clubhub_id_endpoint" =>
           /\ result.kind = "raise"
                  <=> Len(GivenIds(args.ids)) > MaxEndpointIds
           /\ (GivenIds(args.ids) = <<>> /\ ~args.is_xuid) =>
                  /\ result.kind = "return"
                  /\ Len(result.val) >= 5
                  /\ SubSeq(result.val, 1, 5)
                         = <<"https://clubhub.xboxlive.com", "/clubs/",
                             "Ids", "(", ")">>
    /\ (op = "get_club" /\ NoClubsListed) => result = Raise("IndexError")

C30_Witness ==
    /\ op = "get_club"
    /\ NoClubsListed
    /\ result.kind = "raise"

C30_EmptyListWitness ==
    /\ op = "_create_clubhub_id_endpoint"
    /\ args.ids = PList(<<>>)
    /\ ~args.is_xuid
    /\ result.kind = "return"

====
